---- MODULE Spec2Model ----
(***************************************************************************)
(* SaintPopeye Connect: the browser client of an Ollama server.            *)
(*                                                                         *)
(* The model covers OllamaService (listModels, getModelInfo, pullModel,    *)
(* streamChat), the App component's state, handlers and effects            *)
(* (fetchModels, the model detail effect, handleSendMessage,               *)
(* handleClearChat), Chat.handleSubmit, Sidebar.handlePullModel and the    *)
(* PullProgress component.                                                 *)
(*                                                                         *)
(* A response body is a sequence of bytes.  One-character strings stand    *)
(* for ASCII bytes; "C3" "A9" are the two bytes of a two-byte UTF-8        *)
(* character, which TextDecoder turns into the single character "E9".      *)
(* A JSON record is written "{" fields "}", one byte per field:            *)
(*   chat:  "a" "b" "E9" are message.content characters, "D" is done:true, *)
(*          "e" is any other field                                         *)
(*   pull:  "p" "d" "S" status, "t0" "t2" total, "c0".."c2" completed,     *)
(*          "e" error                                                      *)
(* Anything else on a line makes JSON.parse throw.                         *)
(*                                                                         *)
(* An await is a point where other handlers may run, so every handler is   *)
(* cut into one action per stretch of code between two awaits.  React      *)
(* state updates queued in one such stretch are applied together, in       *)
(* order, before the next event is handled.                                *)
(***************************************************************************)
EXTENDS Naturals, Sequences, FiniteSets, TLC

VARIABLES
    ollamaHost,     \* App: useLocalStorage('ollamaHost')
    models,         \* App: useState<OllamaModel[]>, the names in list order
    selectedModel,  \* App: useLocalStorage('selectedModel'), "" when none
    messages,       \* App: useState<ChatMessage[]>
    isLoading,      \* App: useState(false)
    error,          \* App: useState<string | null>, a text, Null when null
    mounted,        \* FALSE once an error thrown while rendering unmounted App
    listCalls,      \* fetchModels calls awaiting service.listModels()
    chats,          \* handleSendMessage calls: streamChat in flight or just ended
    modelToPull,    \* Sidebar: useState('')
    isPulling,      \* Sidebar: useState(false)
    pullStatus,     \* Sidebar: useState<OllamaPullStatus | null>, None when null
    pulls,          \* handlePullModel calls: pullModel in flight or just ended
    timers,         \* pending setTimeout(() => setPullStatus(null), 5000) callbacks
    selectedModelInfo,   \* App: useState<OllamaModelInfo | null>, None when null
    isModelInfoLoading,  \* App: useState(false)
    infoCalls,      \* fetchModelInfo calls awaiting service.getModelInfo()
    infoDeps,       \* [selectedModel, ollamaHost] of the last run of the detail effect
    localStorage,   \* window.localStorage: the item of each key, None when absent
    APP_CONFIG      \* window.APP_CONFIG of public/config.js, None when undefined

appVars  == <<ollamaHost, models, selectedModel, error, mounted, listCalls>>
chatVars == <<messages, isLoading, chats>>
pullVars == <<modelToPull, isPulling, pullStatus, pulls, timers>>
infoVars == <<selectedModelInfo, isModelInfoLoading, infoCalls, infoDeps>>
envVars  == <<localStorage, APP_CONFIG>>
vars     == <<appVars, chatVars, pullVars, infoVars, envVars>>

----------------------------------------------------------------------------
(* Bounds of the model. *)

\* lines per response body in the decoder specification
MaxRecords == 3
\* entries the chat history may hold before further submissions are cut off
MaxMessages == 3
\* fetchModels calls a user action may add to those already awaiting
MaxRefresh == 0
\* setTimeout callbacks that may be pending when a pull is started
MaxTimers == 1
\* getModelInfo calls that may be awaiting when the selection changes again
MaxInfoCalls == 1
\* edits of the host input after a page load
MaxHostEdits == 1

----------------------------------------------------------------------------
(* Text helpers. *)

NL == "\n"
SP == " "
\* null for a text-valued state (no message is the empty text), None / Some(v) for
\* an optional value
Null == <<>>
None == <<>>
Some(v) == <<v>>

Last(s) == s[Len(s)]

RECURSIVE Concat(_)
Concat(ss) == IF ss = <<>> THEN <<>> ELSE Head(ss) \o Concat(Tail(ss))

IsPrefix(s, t) == Len(s) <= Len(t) /\ SubSeq(t, 1, Len(s)) = s

\* String.prototype.indexOf('\n') + 1: the place of the first newline, 0 if none
indexOf(s, c) ==
    LET at == {i \in 1..Len(s) : s[i] = c}
    IN  IF at = {} THEN 0 ELSE CHOOSE i \in at : \A j \in at : i <= j

\* String.prototype.trim
RECURSIVE trimStart(_)
trimStart(s) == IF s # <<>> /\ Head(s) \in {SP, NL} THEN trimStart(Tail(s)) ELSE s

RECURSIVE trimEnd(_)
trimEnd(s) ==
    IF s # <<>> /\ Last(s) \in {SP, NL} THEN trimEnd(SubSeq(s, 1, Len(s) - 1)) ELSE s

trim(s) == trimEnd(trimStart(s))

\* String.prototype.split('\n')
RECURSIVE split(_)
split(s) ==
    LET i == indexOf(s, NL)
    IN  IF i = 0 THEN <<s>>
        ELSE <<SubSeq(s, 1, i - 1)>> \o split(SubSeq(s, i + 1, Len(s)))

----------------------------------------------------------------------------
(* TextDecoder.decode(value, { stream: true }): UTF-8 with the bytes of an *)
(* unfinished character held back for the next call.                       *)

Lead == "C3"
Cont == "A9"
TwoByteChar == "E9"
Replacement == "FFFD"

RECURSIVE decodeFrom(_, _, _)
decodeFrom(pending, bytes, out) ==
    IF bytes = <<>> THEN [text |-> out, pending |-> pending]
    ELSE LET b == Head(bytes)
         IN  IF pending # <<>>
             THEN IF b = Cont
                  THEN decodeFrom(<<>>, Tail(bytes), Append(out, TwoByteChar))
                  ELSE decodeFrom(<<>>, bytes, Append(out, Replacement))
             ELSE IF b = Lead THEN decodeFrom(<<b>>, Tail(bytes), out)
             ELSE IF b = Cont THEN decodeFrom(<<>>, Tail(bytes), Append(out, Replacement))
             ELSE decodeFrom(<<>>, Tail(bytes), Append(out, b))

decode(pending, bytes) == decodeFrom(pending, bytes, <<>>)

----------------------------------------------------------------------------
(* JSON.parse of one line, as OllamaChatChunk and as OllamaPullStatus.     *)

ContentChars == {"a", "b", TwoByteChar, Replacement}
ChatFields == ContentChars \cup {"D", "e"}

StatusFields == {"p", "d", "S"}
TotalFields == {"t0", "t2"}
CompletedFields == {"c0", "c1", "c2"}
PullFields == StatusFields \cup TotalFields \cup CompletedFields \cup {"e"}

\* JSON.parse: ok with the fields between the braces, or not ok (SyntaxError)
jsonFields(str, allowed) ==
    LET t == trim(str)
    IN  IF /\ Len(t) >= 2
           /\ Head(t) = "{"
           /\ Last(t) = "}"
           /\ \A i \in 2..(Len(t) - 1) : t[i] \in allowed
        THEN [ok |-> TRUE, fields |-> SubSeq(t, 2, Len(t) - 1)]
        ELSE [ok |-> FALSE, fields |-> <<>>]

parseChatChunk(str) ==
    LET j == jsonFields(str, ChatFields)
        f == j.fields
    IN  IF ~j.ok THEN [ok |-> FALSE]
        ELSE [ok |-> TRUE,
              content |-> SelectSeq(f, LAMBDA c : c \in ContentChars),
              done |-> \E i \in 1..Len(f) : f[i] = "D"]

StatusText(c) ==
    CASE c = "p" -> "pulling manifest"
      [] c = "d" -> "downloading"
      [] c = "S" -> "success"

Number(c) ==
    CASE c \in {"t0", "c0"} -> 0
      [] c = "c1" -> 50
      [] c \in {"t2", "c2"} -> 200

\* the last field of a kind in the record (a later duplicate key wins)
lastField(f, kind) ==
    LET at == {i \in 1..Len(f) : f[i] \in kind}
    IN  IF at = {} THEN None
        ELSE Some(f[CHOOSE i \in at : \A j \in at : j <= i])

parsePullStatus(str) ==
    LET j == jsonFields(str, PullFields)
        status == lastField(j.fields, StatusFields)
        total == lastField(j.fields, TotalFields)
        completed == lastField(j.fields, CompletedFields)
        err == lastField(j.fields, {"e"})
    IN  IF ~j.ok THEN [ok |-> FALSE]
        ELSE [ok |-> TRUE,
              value |-> [status |-> IF status = None THEN None
                                    ELSE Some(StatusText(status[1])),
                         total |-> IF total = None THEN None
                                   ELSE Some(Number(total[1])),
                         completed |-> IF completed = None THEN None
                                       ELSE Some(Number(completed[1])),
                         error |-> IF err = None THEN None ELSE Some("pull failed")]]

----------------------------------------------------------------------------
(* Response bodies the server may send.                                    *)

Line(fields) == <<"{">> \o fields \o <<"}">>

ChatLines ==
    { Line(<<"a">>), Line(<<Lead, Cont>>), Line(<<"D">>), Line(<<"b", "D">>),
      Line(<<>>), <<"x">>, <<SP>> }

\* up to n newline-terminated lines
RECURSIVE Terminated(_, _)
Terminated(lines, n) ==
    IF n = 0 THEN {<<>>}
    ELSE LET shorter == Terminated(lines, n - 1)
         IN  shorter \cup {b \o l \o <<NL>> : b \in shorter, l \in lines}

\* the same, possibly followed by one line the server never terminated
Bodies(lines, n) ==
    LET whole == Terminated(lines, n)
    IN  whole \cup {b \o l : b \in Terminated(lines, n - 1), l \in lines}

\* the chat responses of the application-level specification
AppChatBodies ==
    LET a == Line(<<"a">>)
        b == Line(<<"b">>)
        D == Line(<<"D">>)
        n == <<NL>>
    IN  { a \o n \o b \o n \o D \o n,
          a \o n \o b \o n,
          D \o n \o a \o n,
          <<"x">> \o n \o b,
          <<>> }

\* the body of an answer with a status outside 200-299: {"error": "..."}
ErrorBody == Line(<<"e">>)

\* the pull responses of the application-level specification
AppPullBodies ==
    LET n == <<NL>>
    IN  { Line(<<"p">>) \o n \o Line(<<"d", "c1", "t2">>) \o n \o Line(<<"S">>) \o n,
          Line(<<"d", "c2", "t2">>) \o n \o Line(<<"e">>) \o n \o Line(<<"S">>) \o n,
          <<"x">> \o n \o Line(<<"d">>) \o n,
          Line(<<"S">>),
          Line(<<"d", "c0", "t2">>) \o n,
          <<>> }

\* every chat response of up to MaxRecords lines
DecoderBodies == Bodies(ChatLines, MaxRecords)

----------------------------------------------------------------------------
(* OllamaService.streamChat                                                *)

\* buffer += decoder.decode(value, { stream: true })
\* (the mutant starts from the chunk alone, as pullModel does)
appendToBufferForgetful(buffer, text) == text

appendToBuffer(buffer, text) == buffer \o text

\* the inner while loop with done ignored: it goes on to the next record
RECURSIVE processBufferPastDone(_, _)
processBufferPastDone(buffer, out) ==
    LET boundary == indexOf(buffer, NL)
        jsonStr == SubSeq(buffer, 1, boundary - 1)
        rest == SubSeq(buffer, boundary + 1, Len(buffer))
        chunk == parseChatChunk(jsonStr)
    IN  IF boundary = 0 THEN [buffer |-> buffer, chunks |-> out, done |-> FALSE]
        ELSE IF trim(jsonStr) = <<>> \/ ~chunk.ok THEN processBufferPastDone(rest, out)
        ELSE processBufferPastDone(rest,
                 IF chunk.content # <<>> THEN Append(out, chunk.content) ELSE out)

\* the inner while loop: every complete line of the buffer, up to a done record;
\* chunks are the onChunk arguments in call order
RECURSIVE processBuffer(_, _)
processBuffer(buffer, out) ==
    LET boundary == indexOf(buffer, NL)
        jsonStr == SubSeq(buffer, 1, boundary - 1)
        rest == SubSeq(buffer, boundary + 1, Len(buffer))
        chunk == parseChatChunk(jsonStr)
        out2 == IF chunk.content # <<>> THEN Append(out, chunk.content) ELSE out
    IN  IF boundary = 0 THEN [buffer |-> buffer, chunks |-> out, done |-> FALSE]
        ELSE IF trim(jsonStr) = <<>> \/ ~chunk.ok THEN processBuffer(rest, out)
        ELSE IF chunk.done THEN [buffer |-> rest, chunks |-> out2, done |-> TRUE]
        ELSE processBuffer(rest, out2)

\* what a read reporting done hands to onChunk from the buffer: the mutant parses
\* the unterminated rest as a last record
atEndOfStreamFlush(buffer) == processBuffer(buffer \o <<NL>>, <<>>).chunks

\* if (done) break: the rest of the buffer is dropped
atEndOfStream(buffer) == <<>>

----------------------------------------------------------------------------
(* App                                                                     *)

AssistantMessage(content) == [role |-> "assistant", content |-> content]

NoModelError == <<"Error: Please select a model from the sidebar first.">>

\* errorMessage of the catch block, by what was thrown
ErrorMessage(thrown) ==
    CASE thrown = "TypeError: Failed to fetch" ->
             "Could not connect to Ollama. Please verify the host is running and reachable, and that CORS is configured correctly."
      [] thrown = "Error: Response body is null" -> "Response body is null"
      [] thrown = "TypeError: network error" -> "network error"

ErrorContent(thrown) == <<"Error: " \o ErrorMessage(thrown)>>

\* the setMessages updater of the branch without a model (the mutant adds the
\* user message as well)
noModelUpdaterWithUser(prev) ==
    Append(Append(prev, [role |-> "user", content |-> <<"hi">>]),
           AssistantMessage(NoModelError))

noModelUpdater(prev) == Append(prev, AssistantMessage(NoModelError))

\* the setMessages updater of onChunk; on an empty history prev[-1] is undefined
\* and reading its content throws
onChunkThrows(prev) == prev = <<>>

\* the updater with the delta added to every assistant message, not to the last
\* message alone
onChunkAll(prev, chunk) ==
    [k \in 1..Len(prev) |->
        IF prev[k].role = "assistant" THEN [prev[k] EXCEPT !.content = @ \o chunk]
        ELSE prev[k]]

onChunk(prev, chunk) == [prev EXCEPT ![Len(prev)].content = @ \o chunk]

RECURSIVE applyChunks(_, _)
applyChunks(prev, chunks) ==
    IF chunks = <<>> THEN prev
    ELSE applyChunks(onChunk(prev, Head(chunks)), Tail(chunks))

\* the setMessages updater of the catch block (the mutant appends the error text
\* to the streamed text)
catchUpdaterSuffix(prev, thrown) ==
    IF prev # <<>> /\ Last(prev).role = "assistant"
    THEN [prev EXCEPT ![Len(prev)].content = @ \o ErrorContent(thrown)]
    ELSE Append(prev, AssistantMessage(ErrorContent(thrown)))

catchUpdater(prev, thrown) ==
    IF prev # <<>> /\ Last(prev).role = "assistant" /\ Last(prev).content = <<>>
    THEN [prev EXCEPT ![Len(prev)].content = ErrorContent(thrown)]
    ELSE Append(prev, AssistantMessage(ErrorContent(thrown)))

----------------------------------------------------------------------------
(* The server and the user.                                                *)

\* a host is a text: a sequence of characters in which "/" is the slash and any
\* longer string stands for a run of other characters
DefaultHost == <<"http://localhost:11434">>

\* the host that deploy_rpi.sh writes to public/config.js
ConfiguredHost == <<"http://raspberrypi.local:11434">>

\* the model lists a listing may answer with
ServerLists == { <<>>, <<"m1">>, <<"m1", "m2">> }

\* what the user submits: input.trim() and the attached image, one of them present
Submissions == { [message |-> <<"hi">>, images |-> None] }

InSeq(x, s) == \E i \in 1..Len(s) : s[i] = x

Remove(s, i) == SubSeq(s, 1, i - 1) \o SubSeq(s, i + 1, Len(s))

----------------------------------------------------------------------------
(* OllamaService.listModels and OllamaService.getModelInfo                 *)

\* the constructor: this.baseUrl
OllamaService(baseUrl) ==
    IF baseUrl # <<>> /\ Last(baseUrl) = "/" THEN SubSeq(baseUrl, 1, Len(baseUrl) - 1)
    ELSE baseUrl

\* what fetch settles with: a rejection, or a response with its ok flag and the
\* value its body decodes to
Unreachable == [reachable |-> FALSE]

Response(ok, json) == [reachable |-> TRUE, ok |-> ok, json |-> json]

\* the answers to GET /api/tags; a failing status may carry a body that decodes
\* to a list as well
ListResponses ==
    {Unreachable, Response(FALSE, [models |-> <<"m1">>])}
        \cup {Response(TRUE, [models |-> list]) : list \in ServerLists}

\* the detail the server at host holds for a model
ModelInfo(model, host) == [details |-> model, from |-> host]

\* the answers to POST /api/show for a model
InfoResponses(model, host) ==
    {Unreachable, Response(FALSE, ModelInfo(model, host)),
     Response(TRUE, ModelInfo(model, host))}

\* the outcome of an async method: a rejection with a message or a value
Threw(message) == [threw |-> TRUE, message |-> message]

Returned(value) == [threw |-> FALSE, value |-> value]

\* listModels without the test of response.ok, as streamChat and pullModel do
listModelsIgnoringStatus(response) ==
    IF ~response.reachable THEN Threw("Failed to fetch")
    ELSE Returned(response.json)

listModels(response) ==
    IF ~response.reachable THEN Threw("Failed to fetch")
    ELSE IF ~response.ok THEN Threw("Failed to fetch models from Ollama.")
    ELSE Returned(response.json)

getModelInfo(modelName, response) ==
    IF ~response.reachable THEN Threw("Failed to fetch")
    ELSE IF ~response.ok THEN Threw("Failed to fetch model info for " \o modelName \o ".")
    ELSE Returned(response.json)

----------------------------------------------------------------------------
(* window.localStorage, window.APP_CONFIG and useLocalStorage              *)

Quote == "\""

\* a model name is a text of one character, '' the empty text
Text(s) == IF s = "" THEN <<>> ELSE <<s>>

StringOf(text) == IF text = <<>> THEN "" ELSE text[1]

\* JSON.stringify of a string
stringify(text) == <<Quote>> \o text \o <<Quote>>

\* JSON.parse of an item that holds a string; anything else here is not JSON
parse(item) ==
    IF /\ Len(item) >= 2
       /\ Head(item) = Quote
       /\ Last(item) = Quote
       /\ \A k \in 2..(Len(item) - 1) : item[k] # Quote
    THEN Returned(SubSeq(item, 2, Len(item) - 1))
    ELSE Threw("SyntaxError")

\* useState alone: the stored item is never read
useStateOnly(storage, key, initialValue) == initialValue

\* the initialiser of useState in useLocalStorage; a storage of None is one whose
\* access throws
useLocalStorage(storage, key, initialValue) ==
    IF storage = None THEN initialValue
    ELSE LET item == storage[key]
         IN  IF item = None \/ item[1] = <<>> THEN initialValue
             ELSE IF parse(item[1]).threw THEN initialValue
             ELSE parse(item[1]).value

\* setValue with setStoredValue alone: nothing is written to the storage
setValueStateOnly(storage, key, value) == storage

\* window.localStorage.setItem(key, JSON.stringify(valueToStore)) of setValue
setValue(storage, key, value) ==
    IF storage = None THEN storage
    ELSE [storage EXCEPT ![key] = Some(stringify(value))]

\* APP_CONFIG?.ollamaHost || 'http://localhost:11434'
defaultOllamaHost(config) ==
    IF config # None /\ config[1].ollamaHost # <<>> THEN config[1].ollamaHost
    ELSE DefaultHost

\* what the storage may hold when the page is loaded: nothing, an empty item, an
\* item that is not JSON, or the item an earlier session stored
HostItems ==
    {None, Some(<<>>), Some(<<"x">>), Some(stringify(<<>>)),
     Some(stringify(DefaultHost \o <<"/">>)), Some(stringify(ConfiguredHost \o <<"/", "/">>))}

ModelItems ==
    {None, Some(<<"x">>), Some(stringify(Text(""))), Some(stringify(Text("m1")))}

Storages ==
    {None} \cup {[ollamaHost |-> h, selectedModel |-> m] : h \in HostItems, m \in ModelItems}

AppConfigs == {None, Some([ollamaHost |-> <<>>]), Some([ollamaHost |-> ConfiguredHost])}

\* what the user may leave in the host input
HostValues ==
    {<<>>, DefaultHost, ConfiguredHost \o <<"/">>, DefaultHost \o <<"/", "/">>}

\* the storage that a session with this host and this selection leaves behind when
\* the host was never edited
StorageOf(selected) ==
    [ollamaHost |-> None, selectedModel |-> Some(stringify(Text(selected)))]

----------------------------------------------------------------------------
(* App.fetchModels                                                         *)

\* a fetchModels call at the await of service.listModels()
ListCall(host, selected) ==
    [host |-> host, selectedModel |-> selected, response |-> None,
     baseUrl |-> OllamaService(host)]

\* up to the await of service.listModels(); the call keeps the ollamaHost and the
\* selectedModel of the render that created it
fetchModelsCall(host, selected) ==
    /\ error' = Null
    /\ listCalls' = Append(listCalls, ListCall(host, selected))

\* Refresh Models (Sidebar) and Retry Connection (ErrorDisplay)
refreshModels ==
    /\ mounted
    /\ Len(listCalls) <= MaxRefresh
    /\ fetchModelsCall(ollamaHost, selectedModel)
    /\ UNCHANGED <<envVars, infoVars, ollamaHost, models, selectedModel, mounted, chatVars, pullVars>>

\* `Failed to connect to Ollama at '${ollamaHost}'.`
ConnectionError(host) == <<"Failed to connect to Ollama at '">> \o host \o <<"'.">>

\* setSelectedModel after a listing, from the call's own selectedModel
selectionAfterListing(list, closureSelected, current) ==
    IF list # <<>> /\ ~InSeq(closureSelected, list) THEN list[1]
    ELSE IF list = <<>> THEN ""
    ELSE current

\* the setItem of the same setSelectedModel calls
storageAfterListing(list, closureSelected, storage) ==
    IF list # <<>> /\ ~InSeq(closureSelected, list)
    THEN setValue(storage, "selectedModel", Text(list[1]))
    ELSE IF list = <<>> THEN setValue(storage, "selectedModel", Text(""))
    ELSE storage

\* the try block with the list merged into the set held, not put in its place
fetchModelsOkMerge(i, list) ==
    /\ mounted
    /\ i \in 1..Len(listCalls)
    /\ models' = models \o SelectSeq(list, LAMBDA m : ~InSeq(m, models))
    /\ selectedModel' = selectionAfterListing(list, listCalls[i].selectedModel, selectedModel)
    /\ localStorage' = storageAfterListing(list, listCalls[i].selectedModel, localStorage)
    /\ listCalls' = Remove(listCalls, i)
    /\ UNCHANGED <<APP_CONFIG, infoVars, ollamaHost, error, mounted, chatVars, pullVars>>

\* listModels resolves
fetchModelsOk(i, list) ==
    /\ mounted
    /\ i \in 1..Len(listCalls)
    /\ models' = list
    /\ selectedModel' = selectionAfterListing(list, listCalls[i].selectedModel, selectedModel)
    /\ localStorage' = storageAfterListing(list, listCalls[i].selectedModel, localStorage)
    /\ listCalls' = Remove(listCalls, i)
    /\ UNCHANGED <<APP_CONFIG, infoVars, ollamaHost, error, mounted, chatVars, pullVars>>

\* the catch block without setSelectedModel('')
fetchModelsCatchKeepsSelection(i) ==
    /\ mounted
    /\ i \in 1..Len(listCalls)
    /\ error' = ConnectionError(listCalls[i].host)
    /\ models' = <<>>
    /\ listCalls' = Remove(listCalls, i)
    /\ UNCHANGED <<envVars, infoVars, ollamaHost, selectedModel, mounted, chatVars, pullVars>>

\* listModels rejects: fetch failed or the status was not ok
fetchModelsCatch(i) ==
    /\ mounted
    /\ i \in 1..Len(listCalls)
    /\ error' = ConnectionError(listCalls[i].host)
    /\ models' = <<>>
    /\ selectedModel' = ""
    /\ localStorage' = setValue(localStorage, "selectedModel", Text(""))
    /\ listCalls' = Remove(listCalls, i)
    /\ UNCHANGED <<APP_CONFIG, infoVars, ollamaHost, mounted, chatVars, pullVars>>

\* the server answers the request of call i; the answer is on its way
listModelsResponse(i, response) ==
    /\ mounted
    /\ i \in 1..Len(listCalls)
    /\ listCalls[i].response = None
    /\ listCalls' = [listCalls EXCEPT ![i].response = Some(response)]
    /\ UNCHANGED <<envVars, infoVars, ollamaHost, models, selectedModel, error, mounted, chatVars, pullVars>>

\* the answer arrives: listModels settles and fetchModels goes on in its try or in
\* its catch block
fetchModelsSettles(i) ==
    /\ i \in 1..Len(listCalls)
    /\ listCalls[i].response # None
    /\ LET data == listModels(listCalls[i].response[1])
       IN  IF data.threw THEN fetchModelsCatch(i) ELSE fetchModelsOk(i, data.value.models)

\* the model select of the Sidebar
setSelectedModel(m) ==
    /\ mounted
    /\ InSeq(m, models)
    /\ m # selectedModel
    /\ selectedModel' = m
    /\ localStorage' = setValue(localStorage, "selectedModel", Text(m))
    /\ UNCHANGED <<APP_CONFIG, infoVars, ollamaHost, models, error, mounted, listCalls, chatVars,
                   pullVars>>

\* the host input of the Sidebar
setOllamaHost(value) ==
    /\ mounted
    /\ value # ollamaHost
    /\ ollamaHost' = value
    /\ localStorage' = setValue(localStorage, "ollamaHost", value)
    /\ UNCHANGED <<APP_CONFIG, infoVars, models, selectedModel, error, mounted, listCalls, chatVars,
                   pullVars>>

----------------------------------------------------------------------------
(* App: the effect on [selectedModel, ollamaHost] that fetches the detail   *)

\* the effect has run for the selection and the host of the last render
effectsFlushed == infoDeps = <<selectedModel, ollamaHost>>

\* a fetchModelInfo call at the await of service.getModelInfo()
InfoCall(model, host) ==
    [model |-> model, host |-> host, response |-> None, baseUrl |-> OllamaService(host)]

\* the body of the effect, up to the await of service.getModelInfo()
fetchModelInfoCall ==
    /\ infoDeps' = <<selectedModel, ollamaHost>>
    /\ IF selectedModel = ""
       THEN /\ selectedModelInfo' = None
            /\ UNCHANGED <<isModelInfoLoading, infoCalls>>
       ELSE /\ isModelInfoLoading' = TRUE
            /\ infoCalls' = Append(infoCalls, InfoCall(selectedModel, ollamaHost))
            /\ UNCHANGED selectedModelInfo

\* the effect runs after a render with a new selection
modelInfoEffect ==
    /\ mounted
    /\ ~effectsFlushed
    /\ infoDeps[2] = ollamaHost
    /\ fetchModelInfoCall
    /\ UNCHANGED <<envVars, appVars, chatVars, pullVars>>

\* the effects run after a render with a new host: the effect on [ollamaHost]
\* calls fetchModels, then the effect on [selectedModel, ollamaHost] runs
ollamaHostEffects ==
    /\ mounted
    /\ infoDeps[2] # ollamaHost
    /\ fetchModelsCall(ollamaHost, selectedModel)
    /\ fetchModelInfoCall
    /\ UNCHANGED <<envVars, ollamaHost, models, selectedModel, mounted, chatVars, pullVars>>

\* the server answers the request of call j; the answer is on its way
getModelInfoResponse(j, response) ==
    /\ mounted
    /\ j \in 1..Len(infoCalls)
    /\ infoCalls[j].response = None
    /\ infoCalls' = [infoCalls EXCEPT ![j].response = Some(response)]
    /\ UNCHANGED <<envVars, appVars, chatVars, pullVars, selectedModelInfo, isModelInfoLoading,
                   infoDeps>>

\* the answer arrives: getModelInfo settles, then the try or the catch block and
\* the finally block of fetchModelInfo
fetchModelInfoSettles(j) ==
    /\ mounted
    /\ j \in 1..Len(infoCalls)
    /\ infoCalls[j].response # None
    /\ LET info == getModelInfo(infoCalls[j].model, infoCalls[j].response[1])
       IN  selectedModelInfo' = IF info.threw THEN None ELSE Some(info.value)
    /\ isModelInfoLoading' = FALSE
    /\ infoCalls' = Remove(infoCalls, j)
    /\ UNCHANGED <<envVars, appVars, chatVars, pullVars, infoDeps>>

----------------------------------------------------------------------------
(* Chat.handleSubmit and App.handleSendMessage                             *)

UserMessage(sub) ==
    IF sub.images = None THEN [role |-> "user", content |-> sub.message]
    ELSE [role |-> "user", content |-> sub.message, images |-> sub.images]

\* a streamChat call at its first await
NewChat(model, newMessages) ==
    [pc |-> "fetch", model |-> model, messages |-> newMessages, body |-> <<>>,
     pos |-> 0, pending |-> <<>>, buffer |-> <<>>, delivered |-> <<>>, sawDone |-> FALSE,
     responseOk |-> TRUE]

InFlight(c) == c.pc \in {"fetch", "read"}

\* the guard of handleSubmit; the form is shown only when App holds no error (the
\* mutant submits while loading)
canSubmitWhileLoading == mounted /\ error = Null

canSubmit == mounted /\ error = Null /\ ~isLoading

\* calls that ended are dropped when the next one starts
StillRunning == SelectSeq(chats, InFlight)

\* handleSendMessage with no model selected
handleSendMessageNoModel ==
    /\ canSubmit
    /\ selectedModel = ""
    /\ Len(messages) < MaxMessages
    /\ messages' = noModelUpdater(messages)
    /\ UNCHANGED <<envVars, infoVars, appVars, isLoading, chats, pullVars>>

\* handleSendMessage with the history as shown, placeholder included, handed to
\* streamChat
handleSendMessageSendsPlaceholder(sub) ==
    /\ canSubmit
    /\ selectedModel # ""
    /\ Len(messages) + 2 <= MaxMessages
    /\ LET newMessages == Append(messages, UserMessage(sub))
       IN  /\ messages' = Append(newMessages, AssistantMessage(<<>>))
           /\ chats' = Append(StillRunning,
                              NewChat(selectedModel, Append(newMessages, AssistantMessage(<<>>))))
    /\ isLoading' = TRUE
    /\ error' = Null
    /\ UNCHANGED <<envVars, infoVars, ollamaHost, models, selectedModel, mounted, listCalls, pullVars>>

\* handleSendMessage up to the await of fetch in streamChat
handleSendMessage(sub) ==
    /\ canSubmit
    /\ selectedModel # ""
    /\ Len(messages) + 2 <= MaxMessages
    /\ LET newMessages == Append(messages, UserMessage(sub))
       IN  /\ messages' = Append(newMessages, AssistantMessage(<<>>))
           /\ chats' = Append(StillRunning, NewChat(selectedModel, newMessages))
    /\ isLoading' = TRUE
    /\ error' = Null
    /\ UNCHANGED <<envVars, infoVars, ollamaHost, models, selectedModel, mounted, listCalls, pullVars>>

\* the catch block with a second streamChat call for the same turn
chatThrowsRetries(i, thrown) ==
    /\ messages' = catchUpdater(messages, thrown)
    /\ isLoading' = TRUE
    /\ chats' = Append([chats EXCEPT ![i].pc = "threw"],
                       NewChat(chats[i].model, chats[i].messages))
    /\ UNCHANGED <<envVars, infoVars, appVars, pullVars>>

\* finally { setIsLoading(false) } after the catch block
chatThrows(i, thrown) ==
    /\ messages' = catchUpdater(messages, thrown)
    /\ isLoading' = FALSE
    /\ chats' = [chats EXCEPT ![i].pc = "threw"]
    /\ UNCHANGED <<envVars, infoVars, appVars, pullVars>>

\* fetch rejects
streamChatFetchFails(i) ==
    /\ mounted
    /\ i \in 1..Len(chats)
    /\ chats[i].pc = "fetch"
    /\ chatThrows(i, "TypeError: Failed to fetch")

\* fetch resolves with a response that has no body
streamChatNoBody(i) ==
    /\ mounted
    /\ i \in 1..Len(chats)
    /\ chats[i].pc = "fetch"
    /\ chatThrows(i, "Error: Response body is null")

\* fetch resolves: the status is not looked at, the reader is taken
streamChatResponse(i, body) ==
    /\ mounted
    /\ i \in 1..Len(chats)
    /\ chats[i].pc = "fetch"
    /\ chats' = [chats EXCEPT ![i].pc = "read", ![i].body = body]
    /\ UNCHANGED <<envVars, infoVars, appVars, messages, isLoading, pullVars>>

\* fetch resolves with a status outside 200-299: response.ok is not looked at
\* either, the reader is taken
streamChatErrorResponse(i) ==
    /\ mounted
    /\ i \in 1..Len(chats)
    /\ chats[i].pc = "fetch"
    /\ chats' = [chats EXCEPT ![i].pc = "read", ![i].body = ErrorBody,
                              ![i].responseOk = FALSE]
    /\ UNCHANGED <<envVars, infoVars, appVars, messages, isLoading, pullVars>>

\* reader.read() resolves with the next n bytes; the loop body runs to the next
\* read, or to the return at a done record and the finally block of the caller
streamChatRead(i, n) ==
    /\ mounted
    /\ i \in 1..Len(chats)
    /\ chats[i].pc = "read"
    /\ n \in 1..(Len(chats[i].body) - chats[i].pos)
    /\ LET c == chats[i]
           value == SubSeq(c.body, c.pos + 1, c.pos + n)
           d == decode(c.pending, value)
           r == processBuffer(appendToBuffer(c.buffer, d.text), <<>>)
           after == [c EXCEPT !.pos = c.pos + n, !.pending = d.pending,
                               !.buffer = r.buffer,
                               !.delivered = c.delivered \o r.chunks,
                               !.sawDone = r.done,
                               !.pc = IF r.done THEN "returned" ELSE "read"]
       IN  IF r.chunks # <<>> /\ onChunkThrows(messages)
           THEN /\ mounted' = FALSE
                /\ chats' = [chats EXCEPT ![i] = after]
                /\ UNCHANGED <<envVars, infoVars, ollamaHost, models, selectedModel, error, listCalls,
                               messages, isLoading, pullVars>>
           ELSE /\ messages' = applyChunks(messages, r.chunks)
                /\ isLoading' = IF r.done THEN FALSE ELSE isLoading
                /\ chats' = [chats EXCEPT ![i] = after]
                /\ UNCHANGED <<envVars, infoVars, appVars, pullVars>>

\* the end of the response with the rest of the buffer parsed as a last record
streamChatEndFlushes(i) ==
    /\ mounted
    /\ i \in 1..Len(chats)
    /\ chats[i].pc = "read"
    /\ chats[i].pos = Len(chats[i].body)
    /\ LET c == chats[i]
           last == atEndOfStreamFlush(c.buffer)
       IN  /\ chats' = [chats EXCEPT ![i].pc = "returned",
                                     ![i].delivered = c.delivered \o last]
           /\ messages' = applyChunks(messages, last)
    /\ isLoading' = FALSE
    /\ UNCHANGED <<envVars, infoVars, appVars, pullVars>>

\* reader.read() resolves with done: break, return, finally
streamChatEnd(i) ==
    /\ mounted
    /\ i \in 1..Len(chats)
    /\ chats[i].pc = "read"
    /\ chats[i].pos = Len(chats[i].body)
    /\ LET c == chats[i]
           last == atEndOfStream(c.buffer)
       IN  /\ chats' = [chats EXCEPT ![i].pc = "returned",
                                     ![i].delivered = c.delivered \o last]
           /\ messages' = applyChunks(messages, last)
    /\ isLoading' = FALSE
    /\ UNCHANGED <<envVars, infoVars, appVars, pullVars>>

\* reader.read() rejects: the connection broke
streamChatReadFails(i) ==
    /\ mounted
    /\ i \in 1..Len(chats)
    /\ chats[i].pc = "read"
    /\ chatThrows(i, "TypeError: network error")

\* Clear Chat History (Sidebar menu)
handleClearChat ==
    /\ mounted
    /\ messages' = <<>>
    /\ UNCHANGED <<envVars, infoVars, appVars, isLoading, chats, pullVars>>

----------------------------------------------------------------------------
(* OllamaService.pullModel and Sidebar.handlePullModel                     *)

PullNames == {"", " ", "llama3"}

\* chunk.split('\n').filter(s => s.trim() !== '') and the forEach: the statuses
\* handed to onProgress, in call order
RECURSIVE parseEach(_)
parseEach(jsonObjects) ==
    IF jsonObjects = <<>> THEN <<>>
    ELSE LET parsed == parsePullStatus(Head(jsonObjects))
         IN  (IF parsed.ok THEN <<parsed.value>> ELSE <<>>) \o parseEach(Tail(jsonObjects))

progressOfChunk(chunk) ==
    parseEach(SelectSeq(split(chunk), LAMBDA str : trim(str) # <<>>))

\* a field of a status object, None when the object has no such field
field(status, name) == IF name \in DOMAIN status THEN status[name] ELSE None

\* the setPullStatus of the onProgress callback (the mutant keeps the fields of
\* the held value that the event does not carry)
onProgressMerge(prev, status) ==
    IF prev = None THEN Some(status)
    ELSE Some([f \in {"status", "total", "completed", "error"} |->
                  IF field(status, f) # None THEN field(status, f) ELSE field(prev[1], f)])

onProgress(prev, status) == Some(status)

RECURSIVE applyStatuses(_, _)
applyStatuses(prev, statuses) ==
    IF statuses = <<>> THEN prev
    ELSE applyStatuses(onProgress(prev, Head(statuses)), Tail(statuses))

\* status.total && status.completed
bothTruthy(status) ==
    LET total == field(status, "total")
        completed == field(status, "completed")
    IN  total # None /\ total[1] # 0 /\ completed # None /\ completed[1] # 0

\* the PullProgress component: whether the bar is drawn and the percentage it is
\* drawn at
PullProgress(status) ==
    [bar |-> bothTruthy(status),
     percentage |-> IF bothTruthy(status)
                    THEN (field(status, "completed")[1] * 100) \div field(status, "total")[1]
                    ELSE 0]

NewPull(name, host, selected) ==
    [pc |-> "fetch", name |-> name, host |-> host, selectedModel |-> selected,
     body |-> <<>>, pos |-> 0, pending |-> <<>>, delivered |-> <<>>]

\* the Pull input, disabled while pulling
setModelToPull(name) ==
    /\ mounted
    /\ ~isPulling
    /\ name # modelToPull
    /\ modelToPull' = name
    /\ UNCHANGED <<envVars, infoVars, appVars, chatVars, isPulling, pullStatus, pulls, timers>>

\* the Pull button left enabled while a pull is in flight
handlePullModelWhilePulling ==
    /\ mounted
    /\ modelToPull # "" /\ modelToPull # " "
    /\ timers < MaxTimers + 1
    /\ Len(listCalls) <= MaxRefresh
    /\ isPulling' = TRUE
    /\ pullStatus' = Some([status |-> "Initializing pull for " \o modelToPull \o "..."])
    /\ pulls' = Append(SelectSeq(pulls, InFlight),
                       NewPull(modelToPull, ollamaHost, selectedModel))
    /\ UNCHANGED <<envVars, infoVars, appVars, chatVars, modelToPull, timers>>

\* the Pull button, disabled while pulling or without a name; handlePullModel up
\* to the await of fetch in pullModel
handlePullModel ==
    /\ mounted
    /\ ~isPulling
    /\ modelToPull # "" /\ modelToPull # " "
    /\ timers < MaxTimers + 1
    /\ Len(listCalls) <= MaxRefresh
    /\ isPulling' = TRUE
    /\ pullStatus' = Some([status |-> "Initializing pull for " \o modelToPull \o "..."])
    /\ pulls' = Append(SelectSeq(pulls, InFlight),
                       NewPull(modelToPull, ollamaHost, selectedModel))
    /\ UNCHANGED <<envVars, infoVars, appVars, chatVars, modelToPull, timers>>

\* the catch block with the error text put into the chat history as well
pullThrowsIntoChat(i, message) ==
    /\ pullStatus' = Some([status |-> "Error pulling model: " \o message, error |-> message])
    /\ isPulling' = FALSE
    /\ timers' = timers + 1
    /\ pulls' = [pulls EXCEPT ![i].pc = "threw"]
    /\ messages' = Append(messages, AssistantMessage(<<"Error: " \o message>>))
    /\ UNCHANGED <<envVars, infoVars, appVars, isLoading, chats, modelToPull>>

\* the catch and finally blocks of handlePullModel
pullThrows(i, message) ==
    /\ pullStatus' = Some([status |-> "Error pulling model: " \o message, error |-> message])
    /\ isPulling' = FALSE
    /\ timers' = timers + 1
    /\ pulls' = [pulls EXCEPT ![i].pc = "threw"]
    /\ UNCHANGED <<envVars, infoVars, appVars, chatVars, modelToPull>>

pullModelFetchFails(i) ==
    /\ mounted
    /\ i \in 1..Len(pulls)
    /\ pulls[i].pc = "fetch"
    /\ pullThrows(i, "Failed to fetch")

pullModelNoBody(i) ==
    /\ mounted
    /\ i \in 1..Len(pulls)
    /\ pulls[i].pc = "fetch"
    /\ pullThrows(i, "Response body is null")

pullModelResponse(i, body) ==
    /\ mounted
    /\ i \in 1..Len(pulls)
    /\ pulls[i].pc = "fetch"
    /\ pulls' = [pulls EXCEPT ![i].pc = "read", ![i].body = body]
    /\ UNCHANGED <<envVars, infoVars, appVars, chatVars, modelToPull, isPulling, pullStatus, timers>>

\* a read whose statuses go to the chat history as well, as if onProgress shared
\* the state of onChunk
pullModelReadIntoChat(i, n) ==
    /\ mounted
    /\ i \in 1..Len(pulls)
    /\ pulls[i].pc = "read"
    /\ n \in 1..(Len(pulls[i].body) - pulls[i].pos)
    /\ LET p == pulls[i]
           d == decode(p.pending, SubSeq(p.body, p.pos + 1, p.pos + n))
           statuses == progressOfChunk(d.text)
       IN  /\ pulls' = [pulls EXCEPT ![i].pos = p.pos + n, ![i].pending = d.pending,
                                     ![i].delivered = p.delivered \o statuses]
           /\ pullStatus' = applyStatuses(pullStatus, statuses)
           /\ messages' = IF statuses = <<>> \/ messages = <<>> THEN messages
                          ELSE [messages EXCEPT ![Len(messages)].content = @ \o <<"status">>]
    /\ UNCHANGED <<envVars, infoVars, appVars, isLoading, chats, modelToPull, isPulling, timers>>

\* reader.read() resolves with the next n bytes: every status parsed from the
\* chunk goes to setPullStatus, the last one stays
pullModelRead(i, n) ==
    /\ mounted
    /\ i \in 1..Len(pulls)
    /\ pulls[i].pc = "read"
    /\ n \in 1..(Len(pulls[i].body) - pulls[i].pos)
    /\ LET p == pulls[i]
           d == decode(p.pending, SubSeq(p.body, p.pos + 1, p.pos + n))
           statuses == progressOfChunk(d.text)
       IN  /\ pulls' = [pulls EXCEPT ![i].pos = p.pos + n, ![i].pending = d.pending,
                                     ![i].delivered = p.delivered \o statuses]
           /\ pullStatus' = applyStatuses(pullStatus, statuses)
    /\ UNCHANGED <<envVars, infoVars, appVars, chatVars, modelToPull, isPulling, timers>>

\* pullModel returns and the try block goes to the finally block without
\* refreshModels()
pullModelEndNoRefresh(i) ==
    /\ mounted
    /\ i \in 1..Len(pulls)
    /\ pulls[i].pc = "read"
    /\ pulls[i].pos = Len(pulls[i].body)
    /\ pulls' = [pulls EXCEPT ![i].pc = "returned"]
    /\ modelToPull' = ""
    /\ isPulling' = FALSE
    /\ timers' = timers + 1
    /\ UNCHANGED <<envVars, infoVars, appVars, chatVars, pullStatus>>

\* reader.read() resolves with done: pullModel returns; setModelToPull(''),
\* refreshModels() of the render that started the pull, then the finally block
pullModelEnd(i) ==
    /\ mounted
    /\ i \in 1..Len(pulls)
    /\ pulls[i].pc = "read"
    /\ pulls[i].pos = Len(pulls[i].body)
    /\ pulls' = [pulls EXCEPT ![i].pc = "returned"]
    /\ modelToPull' = ""
    /\ fetchModelsCall(pulls[i].host, pulls[i].selectedModel)
    /\ isPulling' = FALSE
    /\ timers' = timers + 1
    /\ UNCHANGED <<envVars, infoVars, ollamaHost, models, selectedModel, mounted, chatVars, pullStatus>>

pullModelReadFails(i) ==
    /\ mounted
    /\ i \in 1..Len(pulls)
    /\ pulls[i].pc = "read"
    /\ pullThrows(i, "network error")

\* setTimeout(() => setPullStatus(null), 5000) fires
pullStatusTimeout ==
    /\ mounted
    /\ timers > 0
    /\ timers' = timers - 1
    /\ pullStatus' = None
    /\ UNCHANGED <<envVars, infoVars, appVars, chatVars, modelToPull, isPulling, pulls>>

----------------------------------------------------------------------------
(* Specifications.                                                         *)

\* the page is loaded: the first render of App and of Sidebar with the initial
\* values of their state, then the mount effect, which calls fetchModels
App ==
    /\ ~mounted
    /\ mounted' = TRUE
    /\ LET host == useLocalStorage(localStorage, "ollamaHost", defaultOllamaHost(APP_CONFIG))
           selected == StringOf(useLocalStorage(localStorage, "selectedModel", Text("")))
       IN  /\ ollamaHost' = host
           /\ selectedModel' = selected
           /\ listCalls' = <<ListCall(host, selected)>>
           /\ infoDeps' = <<"", host>>
    /\ models' = <<>>
    /\ messages' = <<>>
    /\ isLoading' = FALSE
    /\ error' = Null
    /\ chats' = <<>>
    /\ modelToPull' = ""
    /\ isPulling' = FALSE
    /\ pullStatus' = None
    /\ pulls' = <<>>
    /\ timers' = 0
    /\ selectedModelInfo' = None
    /\ isModelInfoLoading' = FALSE
    /\ infoCalls' = <<>>
    /\ UNCHANGED envVars

\* the page before it is loaded, with what earlier sessions and the deployment
\* left in the browser
StartupInit ==
    /\ mounted = FALSE
    /\ localStorage \in Storages
    /\ APP_CONFIG \in AppConfigs
    /\ ollamaHost = <<>>
    /\ models = <<>>
    /\ selectedModel = ""
    /\ messages = <<>>
    /\ isLoading = FALSE
    /\ error = Null
    /\ listCalls = <<>>
    /\ chats = <<>>
    /\ modelToPull = ""
    /\ isPulling = FALSE
    /\ pullStatus = None
    /\ pulls = <<>>
    /\ timers = 0
    /\ selectedModelInfo = None
    /\ isModelInfoLoading = FALSE
    /\ infoCalls = <<>>
    /\ infoDeps = <<"", <<>>>>

\* the page load and the edits of the host, with the requests they issue; the
\* answers of the server are left out
StartupNext ==
    \/ App
    \/ modelInfoEffect
    \/ effectsFlushed /\ Len(listCalls) <= MaxHostEdits
          /\ \E value \in HostValues : setOllamaHost(value)
    \/ ollamaHostEffects

StartupSpec == StartupInit /\ [][StartupNext]_vars

\* App after its first render and its mount effect: the stored or default host,
\* the stored selection, and the fetchModels call of the mount effect awaiting
\* its answer.  The model detail effect, declared after the mount effect, has
\* not run yet for a stored selection: modelInfoEffect is its first run.
Init ==
    /\ ollamaHost = DefaultHost
    /\ models = <<>>
    /\ selectedModel \in {"", "m1"}
    /\ messages = <<>>
    /\ isLoading = FALSE
    /\ error = Null
    /\ mounted = TRUE
    /\ listCalls = <<ListCall(ollamaHost, selectedModel)>>
    /\ chats = <<>>
    /\ modelToPull = ""
    /\ isPulling = FALSE
    /\ pullStatus = None
    /\ pulls = <<>>
    /\ timers = 0
    /\ selectedModelInfo = None
    /\ isModelInfoLoading = FALSE
    /\ infoCalls = <<>>
    /\ infoDeps = <<"", ollamaHost>>
    /\ localStorage = StorageOf(selectedModel)
    /\ APP_CONFIG = None

ListingNext ==
    \/ refreshModels
    \/ \E i \in 1..Len(listCalls), list \in ServerLists : fetchModelsOk(i, list)
    \/ \E i \in 1..Len(listCalls) : fetchModelsCatch(i)
    \/ \E m \in {"m1", "m2"} : setSelectedModel(m)

StreamChatNext(bodies) ==
    \/ \E i \in 1..Len(chats) : streamChatFetchFails(i)
    \/ \E i \in 1..Len(chats) : streamChatNoBody(i)
    \/ \E i \in 1..Len(chats) :
          chats[i].pc = "fetch" /\ \E body \in bodies : streamChatResponse(i, body)
    \/ \E i \in 1..Len(chats) : streamChatErrorResponse(i)
    \/ \E i \in 1..Len(chats) :
          \E n \in 1..(Len(chats[i].body) - chats[i].pos) : streamChatRead(i, n)
    \/ \E i \in 1..Len(chats) : streamChatEnd(i)
    \/ \E i \in 1..Len(chats) : streamChatReadFails(i)

\* the chat session within the application
Next ==
    \/ ListingNext
    \/ handleSendMessageNoModel
    \/ \E sub \in Submissions : handleSendMessage(sub)
    \/ StreamChatNext(AppChatBodies)
    \/ handleClearChat

Spec == Init /\ [][Next]_vars

\* one streamChat call on every body of up to MaxRecords lines: App right after a
\* submission with model m1 selected
DecoderInit ==
    /\ ollamaHost = DefaultHost
    /\ models = <<"m1">>
    /\ selectedModel = "m1"
    /\ \E sub \in Submissions :
          /\ messages = <<UserMessage(sub), AssistantMessage(<<>>)>>
          /\ chats = <<NewChat("m1", <<UserMessage(sub)>>)>>
    /\ isLoading = TRUE
    /\ error = Null
    /\ mounted = TRUE
    /\ listCalls = <<>>
    /\ modelToPull = ""
    /\ isPulling = FALSE
    /\ pullStatus = None
    /\ pulls = <<>>
    /\ timers = 0
    /\ selectedModelInfo = None
    /\ isModelInfoLoading = FALSE
    /\ infoCalls = <<>>
    /\ infoDeps = <<selectedModel, ollamaHost>>
    /\ localStorage = StorageOf(selectedModel)
    /\ APP_CONFIG = None

DecoderNext == StreamChatNext(DecoderBodies)

DecoderSpec == DecoderInit /\ [][DecoderNext]_vars

\* the requests for the model list and for the model detail, each with the answer
\* of the server on its way before it is handled; an effect runs before the next
\* event is handled
ServiceNext ==
    \/ modelInfoEffect
    \/ effectsFlushed /\ Len(infoCalls) <= MaxInfoCalls /\ refreshModels
    \/ effectsFlushed /\ Len(infoCalls) <= MaxInfoCalls
          /\ \E m \in {"m1", "m2"} : setSelectedModel(m)
    \/ effectsFlushed
          /\ \E i \in 1..Len(listCalls) :
                listCalls[i].response = None
                    /\ \E response \in ListResponses : listModelsResponse(i, response)
    \/ effectsFlushed /\ Len(infoCalls) <= MaxInfoCalls
          /\ \E i \in 1..Len(listCalls) : fetchModelsSettles(i)
    \/ effectsFlushed
          /\ \E j \in 1..Len(infoCalls) :
                infoCalls[j].response = None
                    /\ \E response \in InfoResponses(infoCalls[j].model, infoCalls[j].host) :
                          getModelInfoResponse(j, response)
    \/ effectsFlushed /\ \E j \in 1..Len(infoCalls) : fetchModelInfoSettles(j)

ServiceSpec == Init /\ [][ServiceNext]_vars

PullStreamNext(bodies) ==
    \/ \E i \in 1..Len(pulls) : pullModelFetchFails(i)
    \/ \E i \in 1..Len(pulls) : pullModelNoBody(i)
    \/ \E i \in 1..Len(pulls) :
          pulls[i].pc = "fetch" /\ \E body \in bodies : pullModelResponse(i, body)
    \/ \E i \in 1..Len(pulls) :
          \E n \in 1..(Len(pulls[i].body) - pulls[i].pos) : pullModelRead(i, n)
    \/ \E i \in 1..Len(pulls) : pullModelEnd(i)
    \/ \E i \in 1..Len(pulls) : pullModelReadFails(i)

\* pulls within the application
PullNext ==
    \/ ListingNext
    \/ \E name \in PullNames : setModelToPull(name)
    \/ handlePullModel
    \/ PullStreamNext(AppPullBodies)
    \/ pullStatusTimeout

PullSpec == Init /\ [][PullNext]_vars

\* a chat call and a pull call in flight together: App and Sidebar right after a
\* submission and a press of Pull, with model m1 selected
StreamsInit ==
    /\ ollamaHost = DefaultHost
    /\ models = <<"m1">>
    /\ selectedModel = "m1"
    /\ \E sub \in Submissions :
          /\ messages = <<UserMessage(sub), AssistantMessage(<<>>)>>
          /\ chats = <<NewChat("m1", <<UserMessage(sub)>>)>>
    /\ isLoading = TRUE
    /\ error = Null
    /\ mounted = TRUE
    /\ listCalls = <<>>
    /\ modelToPull = "llama3"
    /\ isPulling = TRUE
    /\ pullStatus = Some([status |-> "Initializing pull for llama3..."])
    /\ pulls = <<NewPull("llama3", DefaultHost, "m1")>>
    /\ timers = 0
    /\ selectedModelInfo = None
    /\ isModelInfoLoading = FALSE
    /\ infoCalls = <<>>
    /\ infoDeps = <<selectedModel, ollamaHost>>
    /\ localStorage = StorageOf(selectedModel)
    /\ APP_CONFIG = None

StreamsNext ==
    \/ StreamChatNext(AppChatBodies)
    \/ PullStreamNext(AppPullBodies)
    \/ pullStatusTimeout

StreamsSpec == StreamsInit /\ [][StreamsNext]_vars

\* listings that overlap: the listing of the mount effect, the listings that the
\* edits of the host issue, the selections of the user, and the listings settling
\* in any order
ListingsNext ==
    \/ modelInfoEffect
    \/ ollamaHostEffects
    \/ effectsFlushed /\ Len(listCalls) <= MaxHostEdits /\ Len(infoCalls) <= MaxInfoCalls
          /\ \E value \in HostValues : setOllamaHost(value)
    \/ effectsFlushed /\ Len(infoCalls) <= MaxInfoCalls
          /\ \E m \in {"m1", "m2"} : setSelectedModel(m)
    \/ effectsFlushed
          /\ \E i \in 1..Len(listCalls), list \in ServerLists : fetchModelsOk(i, list)
    \/ effectsFlushed /\ \E i \in 1..Len(listCalls) : fetchModelsCatch(i)

ListingsSpec == Init /\ [][ListingsNext]_vars

\* the responses of the specification of all four requests
RequestsChatBodies == { Line(<<"a">>) \o <<NL>> }

RequestsPullBodies == { Line(<<"S">>) \o <<NL>> }

\* App a moment after a page load: the listing of the mount effect is awaiting, the
\* stored selection is a model the server may not have, and the user has typed a
\* name into the Pull input
RequestsInit ==
    /\ ollamaHost = DefaultHost
    /\ models = <<>>
    /\ selectedModel \in {"", "m2"}
    /\ messages = <<>>
    /\ isLoading = FALSE
    /\ error = Null
    /\ mounted = TRUE
    /\ listCalls = <<ListCall(ollamaHost, selectedModel)>>
    /\ chats = <<>>
    /\ modelToPull = "llama3"
    /\ isPulling = FALSE
    /\ pullStatus = None
    /\ pulls = <<>>
    /\ timers = 0
    /\ selectedModelInfo = None
    /\ isModelInfoLoading = FALSE
    /\ infoCalls = <<>>
    /\ infoDeps = <<"", ollamaHost>>
    /\ localStorage = StorageOf(selectedModel)
    /\ APP_CONFIG = None

\* the four requests together: listing, detail, chat and pull, each with its
\* failures, and the actions of the user that issue them. The user asks for a
\* listing with Retry Connection, each response arrives in a single read, and
\* the timers that clear the pull status are left pending
RequestsNext ==
    \/ modelInfoEffect
    \/ effectsFlushed /\ error # Null /\ refreshModels
    \/ effectsFlushed
          /\ \E i \in 1..Len(listCalls), list \in ServerLists : fetchModelsOk(i, list)
    \/ effectsFlushed /\ \E i \in 1..Len(listCalls) : fetchModelsCatch(i)
    \/ effectsFlushed
          /\ \E j \in 1..Len(infoCalls) :
                infoCalls[j].response = None
                    /\ \E response \in InfoResponses(infoCalls[j].model, infoCalls[j].host) :
                          getModelInfoResponse(j, response)
    \/ effectsFlushed /\ \E j \in 1..Len(infoCalls) : fetchModelInfoSettles(j)
    \/ effectsFlushed /\ \E sub \in Submissions : handleSendMessage(sub)
    \/ effectsFlushed /\ \E i \in 1..Len(chats) : streamChatFetchFails(i)
    \/ effectsFlushed
          /\ \E i \in 1..Len(chats) :
                chats[i].pc = "fetch"
                    /\ \E body \in RequestsChatBodies : streamChatResponse(i, body)
    \/ effectsFlushed
          /\ \E i \in 1..Len(chats) : streamChatRead(i, Len(chats[i].body) - chats[i].pos)
    \/ effectsFlushed /\ \E i \in 1..Len(chats) : streamChatEnd(i)
    \/ effectsFlushed /\ \E i \in 1..Len(chats) : streamChatReadFails(i)
    \/ effectsFlushed /\ handlePullModel
    \/ effectsFlushed /\ \E i \in 1..Len(pulls) : pullModelFetchFails(i)
    \/ effectsFlushed
          /\ \E i \in 1..Len(pulls) :
                pulls[i].pc = "fetch"
                    /\ \E body \in RequestsPullBodies : pullModelResponse(i, body)
    \/ effectsFlushed
          /\ \E i \in 1..Len(pulls) : pullModelRead(i, Len(pulls[i].body) - pulls[i].pos)
    \/ effectsFlushed /\ \E i \in 1..Len(pulls) : pullModelEnd(i)
    \/ effectsFlushed /\ \E i \in 1..Len(pulls) : pullModelReadFails(i)

RequestsSpec == RequestsInit /\ [][RequestsNext]_vars

\* what the user submits when an image may be attached: onSendMessage(input.trim(),
\* image ? [image] : undefined), with text, with text and an image, with an image
\* alone
AttachedSubmissions ==
    Submissions \cup { [message |-> <<"hi">>, images |-> <<"img">>],
                       [message |-> <<>>, images |-> <<"img">>] }

\* submissions with and without an image, each answered in a single read or not
\* at all, with the listing of the mount effect and Clear Chat History
SubmitNext ==
    \/ \E i \in 1..Len(listCalls), list \in ServerLists : fetchModelsOk(i, list)
    \/ \E i \in 1..Len(listCalls) : fetchModelsCatch(i)
    \/ handleSendMessageNoModel
    \/ \E sub \in AttachedSubmissions : handleSendMessage(sub)
    \/ \E i \in 1..Len(chats) : streamChatFetchFails(i)
    \/ \E i \in 1..Len(chats) :
          chats[i].pc = "fetch" /\ \E body \in RequestsChatBodies : streamChatResponse(i, body)
    \/ \E i \in 1..Len(chats) : streamChatRead(i, Len(chats[i].body) - chats[i].pos)
    \/ \E i \in 1..Len(chats) : streamChatEnd(i)
    \/ handleClearChat

SubmitSpec == Init /\ [][SubmitNext]_vars

----------------------------------------------------------------------------
(* Reference decodings of a whole response, used to state the claims.      *)

Prefix(c) == SubSeq(c.body, 1, c.pos)

TextOf(bytes) == decode(<<>>, bytes).text

\* what streamChat hands to onChunk when the bytes arrive in a single read
OneReadDeltas(bytes) == processBuffer(TextOf(bytes), <<>>).chunks

\* what pullModel hands to onProgress when the bytes arrive in a single read
OneReadStatuses(bytes) == progressOfChunk(TextOf(bytes))

\* the newline-terminated lines of a text
TerminatedLines(text) == LET parts == split(text) IN SubSeq(parts, 1, Len(parts) - 1)

\* the non-empty contents of the valid records among the lines, in order, up to and
\* including the first done record
RECURSIVE DeltasOfLines(_)
DeltasOfLines(lines) ==
    IF lines = <<>> THEN <<>>
    ELSE LET c == parseChatChunk(Head(lines))
         IN  IF ~c.ok THEN DeltasOfLines(Tail(lines))
             ELSE (IF c.content # <<>> THEN <<c.content>> ELSE <<>>)
                  \o (IF c.done THEN <<>> ELSE DeltasOfLines(Tail(lines)))

HasDoneRecord(lines) ==
    \E k \in 1..Len(lines) : parseChatChunk(lines[k]).ok /\ parseChatChunk(lines[k]).done

Thrown == {"TypeError: Failed to fetch", "Error: Response body is null",
           "TypeError: network error"}

\* the place in the history of the placeholder that chat call c opened
Placeholder(c) == Len(c.messages) + 1

\* call i ends in the catch block in this step
Throws(i) == i \in 1..Len(chats') /\ InFlight(chats[i]) /\ chats'[i].pc = "threw"

----------------------------------------------------------------------------
(* Claims.                                                                 *)

\* C1: however the response bytes of a chat stream are cut into reads, the deltas
\* handed to onChunk after any number of reads are those a single read of the same
\* bytes hands over, in the same order; at the return they are those of the whole
\* response.  (DecoderSpec)
C1_ChunkingInvariant ==
    \A i \in 1..Len(chats) :
        LET c == chats[i]
        IN  /\ c.pc # "fetch" => c.delivered = OneReadDeltas(Prefix(c))
            /\ c.pc = "returned" => c.delivered = OneReadDeltas(c.body)

\* a read ended inside a record and inside a two-byte character after an earlier
\* record was delivered
C1_Witness ==
    \E i \in 1..Len(chats) :
        /\ chats[i].pc = "read"
        /\ chats[i].delivered # <<>>
        /\ chats[i].buffer = <<"{">>
        /\ chats[i].pending = <<Lead>>

\* C2: however the response bytes of a pull stream are cut into reads, the statuses
\* handed to onProgress are those a single read of the same bytes hands over.
\* (PullSpec; pullModel parses each read on its own, so this fails)
C2_PullChunkingInvariant ==
    \A i \in 1..Len(pulls) :
        pulls[i].pc # "fetch" => pulls[i].delivered = OneReadStatuses(Prefix(pulls[i]))

\* C3: once the bytes read hold a complete done record, streamChat has returned (it
\* reads no more) and has delivered the deltas up to that record and none of a
\* later one.  (DecoderSpec)
C3_StopsAtDone ==
    \A i \in 1..Len(chats) :
        LET c == chats[i]
            lines == TerminatedLines(TextOf(Prefix(c)))
        IN  (c.pc # "fetch" /\ HasDoneRecord(lines)) =>
                /\ c.pc = "returned"
                /\ c.sawDone
                /\ c.delivered = DeltasOfLines(lines)

\* streamChat returned at a done record with a later complete record in the buffer
\* and more bytes still to come
C3_Witness ==
    \E i \in 1..Len(chats) :
        /\ chats[i].pc = "returned"
        /\ chats[i].sawDone
        /\ chats[i].pos < Len(chats[i].body)
        /\ indexOf(chats[i].buffer, NL) > 0
        /\ DeltasOfLines(TerminatedLines(chats[i].buffer)) # <<>>

\* C4: when the stream of a submission returns at a done record, the placeholder
\* opened by that submission holds the concatenation of the deltas delivered, and
\* isLoading is false.  (Spec; fails when the history is cleared during the stream)
C4_FinalContent ==
    [][\A i \in 1..Len(chats) :
          (/\ chats[i].pc = "read"
           /\ i \in 1..Len(chats')
           /\ chats'[i].pc = "returned"
           /\ chats'[i].sawDone) =>
              /\ Placeholder(chats[i]) <= Len(messages')
              /\ messages'[Placeholder(chats[i])].content = Concat(chats'[i].delivered)
              /\ ~isLoading']_vars

\* C34: the message list handed to streamChat by a submission is the history as
\* it was before the submission followed by the new user message, images
\* included when attached: it ends with the user message that the history shows
\* for the turn and does not hold the placeholder opened for the turn; the model
\* of the request is the selected one.  (SubmitSpec)
C34_SentMessages ==
    [][(isLoading' /\ ~isLoading) =>
          LET sent == Last(chats').messages
          IN  /\ Last(chats').pc = "fetch"
              /\ Last(chats').model = selectedModel
              /\ Len(sent) = Len(messages) + 1
              /\ SubSeq(sent, 1, Len(messages)) = messages
              /\ Last(sent).role = "user"
              /\ Len(messages') = Len(sent) + 1
              /\ SubSeq(messages', 1, Len(sent)) = sent
              /\ Last(messages') = AssistantMessage(<<>>)]_vars

\* a request in flight for a submission with an image attached, made on a history
\* that was not empty
C34_Witness ==
    \E i \in 1..Len(chats) :
        /\ chats[i].pc = "fetch"
        /\ Len(chats[i].messages) >= 2
        /\ "images" \in DOMAIN Last(chats[i].messages)
        /\ Last(chats[i].messages).images = <<"img">>
        /\ isLoading

\* C5: with no model selected and no turn loading, a step that adds to the history
\* adds exactly one assistant error message and nothing else: no user message, no
\* placeholder, no streamChat, listing or pull call, and isLoading as it was.
C5_NoModelSubmit ==
    [][(selectedModel = "" /\ ~isLoading /\ Len(messages') > Len(messages)) =>
          /\ messages' = Append(messages, AssistantMessage(NoModelError))
          /\ chats' = chats
          /\ listCalls' = listCalls
          /\ pulls' = pulls
          /\ isLoading' = isLoading]_vars

\* a submission without a model was answered inline and nothing was started
C5_Witness ==
    /\ selectedModel = ""
    /\ messages # <<>>
    /\ Last(messages) = AssistantMessage(NoModelError)
    /\ \A k \in 1..Len(messages) : messages[k].role = "assistant"
    /\ chats = <<>>
    /\ ~isLoading

\* C6: when a chat call fails before any delta, the history keeps the length it
\* had once the placeholder was opened and ends with the error text.
\* (Spec; fails when the history is cleared during the stream)
C6_ErrorReplacesPlaceholder ==
    [][\A i \in 1..Len(chats) :
          (Throws(i) /\ chats[i].delivered = <<>>) =>
              /\ Len(messages') = Placeholder(chats[i])
              /\ Last(messages').role = "assistant"
              /\ \E t \in Thrown : Last(messages').content = ErrorContent(t)]_vars

\* C7 as claimed: when a chat call fails after a delta, the error text is added at
\* the end of the in-progress message.
C7_ErrorIsSuffix ==
    [][\A i \in 1..Len(chats) :
          (Throws(i) /\ chats[i].delivered # <<>>) =>
              /\ Len(messages') = Len(messages)
              /\ Placeholder(chats[i]) <= Len(messages)
              /\ \E t \in Thrown :
                    messages'[Placeholder(chats[i])].content =
                        messages[Placeholder(chats[i])].content \o ErrorContent(t)]_vars

\* C7 amended: when a chat call fails after a delta, the error text is appended to
\* the history as a new assistant message and every entry already there, the
\* streamed text included, stays as it was.
C7_ErrorIsNewMessage ==
    [][\A i \in 1..Len(chats) :
          (Throws(i) /\ chats[i].delivered # <<>>) =>
              \E t \in Thrown :
                  messages' = Append(messages, AssistantMessage(ErrorContent(t)))]_vars

\* a call failed after deltas: the streamed text is in the placeholder and the error
\* is the entry after it
C7_Witness ==
    \E i \in 1..Len(chats) :
        /\ chats[i].pc = "threw"
        /\ chats[i].delivered # <<>>
        /\ Len(messages) = Placeholder(chats[i]) + 1
        /\ messages[Placeholder(chats[i])].content = Concat(chats[i].delivered)
        /\ \E t \in Thrown : Last(messages) = AssistantMessage(ErrorContent(t))

\* C8: at most one streamChat call is in flight, and isLoading is true while one is.
C8_OneStream ==
    /\ Cardinality({i \in 1..Len(chats) : InFlight(chats[i])}) <= 1
    /\ (\E i \in 1..Len(chats) : InFlight(chats[i])) => isLoading

\* a stream is in flight while everything but isLoading would let a submission in
C8_Witness ==
    /\ \E i \in 1..Len(chats) : InFlight(chats[i])
    /\ isLoading
    /\ mounted
    /\ error = Null
    /\ selectedModel # ""
    /\ Len(messages) + 2 <= MaxMessages

\* C35: isLoading is true exactly while a streamChat call is in flight, and the
\* step in which a call ends, at a done record, at the end of the response or in
\* a failure, leaves isLoading false with the form there to take the next
\* submission.
\* (Spec; fails when the history is cleared during the stream: the delta handler
\* throws, App is gone and isLoading stays true)
C35_LoadingWhileInFlight ==
    [][/\ isLoading' <=> (\E i \in 1..Len(chats') : InFlight(chats'[i]))
       /\ \A i \in 1..Len(chats) :
             (InFlight(chats[i]) /\ i <= Len(chats') /\ ~InFlight(chats'[i]))
                 => (~isLoading' /\ mounted')]_vars

\* C9: while a chat call is in flight, the message it streams into stays in the
\* history and its earlier content is a prefix of its later content.
\* (Spec; fails when the history is cleared during the stream)
C9_AppendOnly ==
    [][\A i \in 1..Len(chats) :
          (/\ InFlight(chats[i])
           /\ i \in 1..Len(chats')
           /\ InFlight(chats'[i])
           /\ Placeholder(chats[i]) <= Len(messages)) =>
              /\ Placeholder(chats[i]) <= Len(messages')
              /\ IsPrefix(messages[Placeholder(chats[i])].content,
                          messages'[Placeholder(chats[i])].content)]_vars

\* C10: a streamChat call that returned at end-of-stream delivered the deltas of the
\* newline-terminated lines of the response and nothing of what follows the last
\* newline.  (DecoderSpec)
C10_TailDropped ==
    \A i \in 1..Len(chats) :
        LET c == chats[i]
        IN  (c.pc = "returned" /\ ~c.sawDone) =>
                c.delivered = DeltasOfLines(TerminatedLines(TextOf(c.body)))

\* end-of-stream came with a complete record with content left in the buffer
C10_Witness ==
    \E i \in 1..Len(chats) :
        /\ chats[i].pc = "returned"
        /\ ~chats[i].sawDone
        /\ parseChatChunk(chats[i].buffer).ok
        /\ parseChatChunk(chats[i].buffer).content # <<>>

----------------------------------------------------------------------------
(* Claims about pullModel and the pull tracker.                            *)

\* the statuses of the valid records among the lines, in order
StatusesOfLines(lines) ==
    parseEach(SelectSeq(lines, LAMBDA str : trim(str) # <<>>))

\* the text that the read taking pull call p to p2 decoded
TextRead(p, p2) == decode(p.pending, SubSeq(p.body, p.pos + 1, p2.pos)).text

\* pull call i takes a chunk in this step
PullReads(i) ==
    /\ i \in 1..Len(pulls')
    /\ pulls[i].pc = "read"
    /\ pulls'[i].pc = "read"
    /\ pulls'[i].pos > pulls[i].pos

\* C11: the read that takes a pull response to its end hands to onProgress the
\* records of the newline-terminated lines of its chunk only: what follows the last
\* newline of the response is not handed over.  (PullSpec; pullModel parses the
\* piece after the last newline like every other piece, so this fails)
C11_PullTailDropped ==
    [][\A i \in 1..Len(pulls) :
          (PullReads(i) /\ pulls'[i].pos = Len(pulls[i].body)) =>
              pulls'[i].delivered =
                  pulls[i].delivered
                      \o StatusesOfLines(TerminatedLines(TextRead(pulls[i], pulls'[i])))]_vars

----------------------------------------------------------------------------
(* Claims about failures of the chat request.                              *)

ErrorFlavoured(m) ==
    m.role = "assistant" /\ \E t \in Thrown : m.content = ErrorContent(t)

\* C18: when the chat call of a submission that was answered with a status outside
\* 200-299 ends, the history holds an error message at or after the placeholder of
\* that submission.  (Spec; streamChat never looks at the status, so this fails)
C18_ErrorStatusSurfaced ==
    [][\A i \in 1..Len(chats) :
          (/\ i \in 1..Len(chats')
           /\ InFlight(chats[i])
           /\ ~chats[i].responseOk
           /\ ~InFlight(chats'[i])) =>
              \E k \in Placeholder(chats[i])..Len(messages') : ErrorFlavoured(messages'[k])]_vars

\* C14: a held status with total and completed both present, total > 0 and
\* 0 <= completed <= total is drawn as a bar at completed / total; one without total
\* or without completed, or with total 0, is drawn without a bar.
\* (PullSpec; completed 0 is taken for absent, so this fails)
C14_DeterminateRatio ==
    pullStatus # None =>
        LET total == field(pullStatus[1], "total")
            completed == field(pullStatus[1], "completed")
            shown == PullProgress(pullStatus[1])
        IN  /\ (total # None /\ completed # None /\ total[1] > 0 /\ completed[1] <= total[1]) =>
                  (shown.bar /\ shown.percentage * total[1] = completed[1] * 100)
            /\ (total = None \/ completed = None \/ total[1] = 0) => ~shown.bar

\* C15: after a read that handed events to onProgress, the held status is exactly
\* the last of them, with no field kept from an earlier one: if that event has no
\* counts, no bar is drawn.  (PullSpec)
C15_Overwrite ==
    [][\A i \in 1..Len(pulls) :
          (PullReads(i) /\ pulls'[i].delivered # pulls[i].delivered) =>
              /\ pullStatus' = Some(Last(pulls'[i].delivered))
              /\ (Last(pulls'[i].delivered).total = None => ~PullProgress(pullStatus'[1]).bar)]_vars

\* an event without counts is held after an event with counts of the same pull
C15_Witness ==
    /\ pullStatus # None
    /\ field(pullStatus[1], "total") = None
    /\ \E i \in 1..Len(pulls) :
          /\ pulls[i].pc = "read"
          /\ pulls[i].delivered # <<>>
          /\ pullStatus = Some(Last(pulls[i].delivered))
          /\ \E k \in 1..(Len(pulls[i].delivered) - 1) :
                PullProgress(pulls[i].delivered[k]).bar

\* pull call i concludes in this step, by returning or by throwing
PullConcludes(i) ==
    i \in 1..Len(pulls') /\ InFlight(pulls[i]) /\ ~InFlight(pulls'[i])

\* C16: the step that concludes a pull schedules one delayed clear and leaves a
\* status in the tracker; a delayed clear that fires empties the tracker; and the
\* tracker is never emptied while a pull has not concluded.
\* (PullSpec; the clear scheduled by an earlier pull fires during the next one)
C16_DelayedClear ==
    [][/\ \A i \in 1..Len(pulls) :
             PullConcludes(i) => (timers' = timers + 1 /\ pullStatus' # None)
       /\ timers' < timers => pullStatus' = None
       /\ (pullStatus # None /\ pullStatus' = None) => ~isPulling]_vars

\* C29: from the start of a pull until it concludes the tracker holds a status:
\* no delayed clear of an earlier pull empties it while the later pull is in
\* flight.
\* (PullSpec; the timer of an earlier pull is never cancelled)
C29_StatusHeldWhilePulling ==
    (isPulling \/ \E i \in 1..Len(pulls) : InFlight(pulls[i])) => pullStatus # None

\* the name in the Pull input is empty or whitespace: !modelToPull.trim()
BlankName == modelToPull \in {"", " "}

PullsInFlight == {i \in 1..Len(pulls) : InFlight(pulls[i])}

\* C30: at most one pull is in flight at any time, and isPulling is true while
\* one is; a step starts a pull only when isPulling is false and no pull is in
\* flight, and never for a name that is empty or whitespace; while the name is
\* empty or whitespace no step sends a pull request or changes isPulling.
C30_OnePull ==
    [][/\ Cardinality(PullsInFlight') <= 1
       /\ (PullsInFlight' # {}) => isPulling'
       /\ (Len(SelectSeq(pulls', LAMBDA p : p.pc = "fetch"))
               > Len(SelectSeq(pulls, LAMBDA p : p.pc = "fetch")))
              => (~isPulling /\ PullsInFlight = {} /\ ~BlankName)
       /\ (BlankName /\ ~isPulling) => (~isPulling' /\ pulls' = pulls)]_vars

\* a pull is in flight while everything but isPulling would let the next one start
C30_Witness ==
    /\ mounted
    /\ isPulling
    /\ Cardinality(PullsInFlight) = 1
    /\ ~BlankName
    /\ timers < MaxTimers + 1
    /\ Len(listCalls) <= MaxRefresh

\* C36: the step in which pullModel returns empties the Pull input, issues
\* exactly one listing request and leaves isPulling false; the step in which a
\* pull ends in the catch block leaves the Pull input and the listings as they
\* are, puts in the tracker an error status that carries the message of the
\* failure, and leaves isPulling false.  (PullSpec)
C36_PullOutcome ==
    [][\A i \in 1..Len(pulls) :
          (InFlight(pulls[i]) /\ i <= Len(pulls')) =>
              /\ pulls'[i].pc = "returned" =>
                     /\ modelToPull' = ""
                     /\ Len(listCalls') = Len(listCalls) + 1
                     /\ SubSeq(listCalls', 1, Len(listCalls)) = listCalls
                     /\ ~isPulling'
              /\ pulls'[i].pc = "threw" =>
                     /\ modelToPull' = modelToPull
                     /\ listCalls' = listCalls
                     /\ pullStatus' # None
                     /\ "error" \in DOMAIN pullStatus'[1]
                     /\ pullStatus'[1].error # ""
                     /\ pullStatus'[1].status = "Error pulling model: " \o pullStatus'[1].error
                     /\ ~isPulling']_vars

\* a pull has returned: the Pull input is empty and the listing it asked for is
\* awaiting
C36_Witness ==
    /\ mounted
    /\ ~isPulling
    /\ modelToPull = ""
    /\ listCalls # <<>>
    /\ \E i \in 1..Len(pulls) : pulls[i].pc = "returned" /\ pulls[i].name = "llama3"

\* C17: an event with an error field is the last event of its pull, and a pull that
\* delivered one does not end with pullModel returning as for a success.
\* (PullSpec; pullModel never looks at the error field, so this fails)
C17_EndsAtErrorEvent ==
    \A i \in 1..Len(pulls) :
        \A k \in 1..Len(pulls[i].delivered) :
            pulls[i].delivered[k].error # None =>
                (k = Len(pulls[i].delivered) /\ pulls[i].pc # "returned")

----------------------------------------------------------------------------
(* Claims about the model list and the model detail.                       *)

\* fetchModels call i settles in this step, with its answer
ListingSettles(i) == listCalls[i].response # None /\ listCalls' = Remove(listCalls, i)

\* fetchModelInfo call j settles in this step, with its answer
InfoSettles(j) == infoCalls[j].response # None /\ infoCalls' = Remove(infoCalls, j)

Succeeded(response) == response.reachable /\ response.ok

\* C13: when a listing whose request was not answered, or was answered with a
\* failing status, settles, the model set is empty, the selected model is "" and
\* the connection error is set.  (ServiceSpec)
C13_ListingFailureClears ==
    [][\A i \in 1..Len(listCalls) :
          (ListingSettles(i) /\ ~Succeeded(listCalls[i].response[1])) =>
              (models' = <<>> /\ selectedModel' = "" /\ error' # Null)]_vars

\* a failed listing has just emptied a non-empty selection: the detail effect has
\* not yet run for the new selection
C13_Witness ==
    /\ error # Null
    /\ models = <<>>
    /\ selectedModel = ""
    /\ infoDeps[1] # ""

\* C19: a listModels or getModelInfo call answered with a failing status ends in
\* the catch block of its caller, whatever the body decodes to; one answered with
\* a success status hands the decoded body to its caller.  (ServiceSpec)
C19_StatusDecides ==
    [][/\ \A i \in 1..Len(listCalls) :
             ListingSettles(i) =>
                 LET response == listCalls[i].response[1]
                 IN  IF Succeeded(response)
                     THEN models' = response.json.models /\ error' = error
                     ELSE models' = <<>> /\ error' # Null
       /\ \A j \in 1..Len(infoCalls) :
             InfoSettles(j) =>
                 LET response == infoCalls[j].response[1]
                 IN  IF Succeeded(response)
                     THEN selectedModelInfo' = Some(response.json)
                     ELSE selectedModelInfo' = None]_vars

\* answers with a failing status and a decodable body are on their way to a
\* listModels call and to a getModelInfo call, with a detail held
C19_Witness ==
    /\ \E i \in 1..Len(listCalls) :
          /\ listCalls[i].response # None
          /\ listCalls[i].response[1].reachable
          /\ ~listCalls[i].response[1].ok
    /\ \E j \in 1..Len(infoCalls) :
          /\ infoCalls[j].response # None
          /\ infoCalls[j].response[1].reachable
          /\ ~infoCalls[j].response[1].ok
    /\ selectedModelInfo # None
    /\ error = Null

\* C21: whenever the detail effect has run for the current selection and no
\* getModelInfo call is awaiting, the held detail is absent or is the detail of the
\* selected model on the current host.
\* (ServiceSpec; the answer to an earlier selection may arrive last, so this fails)
C21_DetailIsSnapshot ==
    (effectsFlushed /\ infoCalls = <<>>) =>
        \/ selectedModelInfo = None
        \/ selectedModel # "" /\ selectedModelInfo = Some(ModelInfo(selectedModel, ollamaHost))


\* C22: when a listing answered with a success status settles, the model set is
\* the list of that answer, entry for entry: nothing of the set held before stays
\* and nothing of the answer is left out.  (ServiceSpec)
C22_ListingReplaces ==
    [][\A i \in 1..Len(listCalls) :
          (ListingSettles(i) /\ Succeeded(listCalls[i].response[1])) =>
              LET list == listCalls[i].response[1].json.models
              IN  /\ Len(models') = Len(list)
                  /\ \A k \in 1..Len(list) : models'[k] = list[k]
                  /\ \A k \in 1..Len(models) :
                        ~InSeq(models[k], list) => ~InSeq(models[k], models')]_vars

\* the answer of a later listing is on its way with a list that lacks an entry of
\* the set held
C22_Witness ==
    \E i \in 1..Len(listCalls) :
        /\ listCalls[i].response # None
        /\ Succeeded(listCalls[i].response[1])
        /\ \E k \in 1..Len(models) :
              ~InSeq(models[k], listCalls[i].response[1].json.models)

\* C31: whenever no listing is in flight and the last listing to settle
\* resolved, the selected model is "" if the model set is empty and a member of
\* the model set otherwise, whatever the user selected while listings were in
\* flight.
\* (ServiceSpec; fetchModels tests the selectedModel of the render that called it)
C31_SelectionInModelSet ==
    (listCalls = <<>> /\ error = Null) =>
        IF models = <<>> THEN selectedModel = "" ELSE InSeq(selectedModel, models)

\* C32: when listings overlap, the listing that completes last, if it is a
\* request for a host that is no longer the current one (a request issued after
\* it, for the current host, has completed before it), leaves the model set, the
\* selection and the connection error as the more recent request left them.
\* (ListingsSpec; every answer is applied in the order of arrival)
C32_LatestListingWins ==
    [][(/\ Len(listCalls) = 1
        /\ listCalls' = <<>>
        /\ infoDeps[2] = ollamaHost
        /\ listCalls[1].host # ollamaHost)
           => UNCHANGED <<models, selectedModel, error>>]_vars

----------------------------------------------------------------------------
(* Claims about the page load and the host.                                *)

\* the item of a key is there and is the JSON text of a string
Readable(key) ==
    /\ localStorage # None
    /\ localStorage[key] # None
    /\ LET item == localStorage[key][1]
       IN  /\ Len(item) >= 2
           /\ item[1] = Quote
           /\ item[Len(item)] = Quote
           /\ \A k \in 2..(Len(item) - 1) : item[k] # Quote

\* the string that a readable item holds
Persisted(key) ==
    LET item == localStorage[key][1] IN SubSeq(item, 2, Len(item) - 1)

\* C23: the page load leaves as host the string stored under ollamaHost if there is
\* a readable one, otherwise the non-empty host of APP_CONFIG if there is one,
\* otherwise http://localhost:11434; and as selected model the string stored under
\* selectedModel if there is a readable one, otherwise ''.  (StartupSpec)
C23_StartupValues ==
    [][(~mounted /\ mounted') =>
          /\ ollamaHost' =
                 IF Readable("ollamaHost") THEN Persisted("ollamaHost")
                 ELSE IF APP_CONFIG # None /\ APP_CONFIG[1].ollamaHost # <<>>
                      THEN APP_CONFIG[1].ollamaHost
                 ELSE <<"http://localhost:11434">>
          /\ Text(selectedModel') =
                 IF Readable("selectedModel") THEN Persisted("selectedModel") ELSE <<>>]_vars

\* the page was loaded with a host and a selection stored and a host configured:
\* the stored ones were taken and the listing was requested with them
C23_Witness ==
    /\ mounted
    /\ Readable("ollamaHost")
    /\ Readable("selectedModel")
    /\ APP_CONFIG # None
    /\ ollamaHost = Persisted("ollamaHost")
    /\ ollamaHost # APP_CONFIG[1].ollamaHost
    /\ selectedModel = "m1"
    /\ listCalls = <<ListCall(ollamaHost, "m1")>>
    /\ infoCalls = <<>>

\* C33: with a storage that can be written, after every change of the host or of
\* the selected model, by the user or by a listing, the item stored under each
\* key that has one is the JSON text of the value held, and a page load would
\* read back the host and the selected model held.  (ListingsSpec)
C33_PersistedIsCurrent ==
    localStorage # None =>
        /\ Readable("ollamaHost") => Persisted("ollamaHost") = ollamaHost
        /\ Readable("selectedModel") => Persisted("selectedModel") = Text(selectedModel)
        /\ useLocalStorage(localStorage, "ollamaHost", defaultOllamaHost(APP_CONFIG))
               = ollamaHost
        /\ StringOf(useLocalStorage(localStorage, "selectedModel", Text("")))
               = selectedModel

\* the user has edited the host and selected m2, and a listing has since emptied
\* the model set and the selection
C33_Witness ==
    /\ mounted
    /\ Readable("ollamaHost")
    /\ ollamaHost # DefaultHost
    /\ Persisted("ollamaHost") = ollamaHost
    /\ Readable("selectedModel")
    /\ Persisted("selectedModel") = <<>>
    /\ selectedModel = ""
    /\ error # Null
    /\ \E j \in 1..Len(infoCalls) : infoCalls[j].model = "m2"

\* a base URL that does not end with a slash and that the constructor leaves as
\* it is
Normalised(baseUrl) ==
    /\ baseUrl = <<>> \/ Last(baseUrl) # "/"
    /\ OllamaService(baseUrl) = baseUrl

\* C27: the base URL of every request, as the constructor of OllamaService left
\* it, does not end with a slash, and the constructor leaves it unchanged.
\* (StartupSpec; the constructor takes one slash off, so a host that ends with two
\* keeps one)
C27_TrailingSlashStripped ==
    /\ \A i \in 1..Len(listCalls) : Normalised(listCalls[i].baseUrl)
    /\ \A j \in 1..Len(infoCalls) : Normalised(infoCalls[j].baseUrl)

----------------------------------------------------------------------------
(* Claims about the two streams together.                                  *)

\* e can be had from d by leaving entries out
RECURSIVE IsSubSeq(_, _)
IsSubSeq(e, d) ==
    IF e = <<>> THEN TRUE
    ELSE IF d = <<>> THEN FALSE
    ELSE IF Head(e) = Head(d) THEN IsSubSeq(Tail(e), Tail(d))
    ELSE IsSubSeq(e, Tail(d))

From(lines, k) == SubSeq(lines, k + 1, Len(lines))

\* the valid records after every invalid line read so far were delivered, in order
ChatSurvivesInvalid(c) ==
    LET lines == TerminatedLines(TextOf(Prefix(c)))
    IN  \A k \in 1..Len(lines) :
            (/\ trim(lines[k]) # <<>>
             /\ ~parseChatChunk(lines[k]).ok
             /\ ~HasDoneRecord(SubSeq(lines, 1, k))) =>
                IsSubSeq(DeltasOfLines(From(lines, k)), c.delivered)

PullSurvivesInvalid(p) ==
    LET lines == TerminatedLines(TextOf(Prefix(p)))
    IN  \A k \in 1..Len(lines) :
            (trim(lines[k]) # <<>> /\ ~parsePullStatus(lines[k]).ok) =>
                IsSubSeq(StatusesOfLines(From(lines, k)), p.delivered)

\* C12: in streamChat and in pullModel, after every read the valid records that
\* follow a newline-terminated line that is not valid JSON have been delivered, in
\* order, and no read ends in a failure of the call.
\* (StreamsSpec; a record of a pull cut across two reads is lost)
C12_InvalidRecordSkipped ==
    [][/\ \A i \in 1..Len(chats') :
             /\ chats'[i].pc # "fetch" => ChatSurvivesInvalid(chats'[i])
             /\ chats'[i].pos > chats[i].pos => chats'[i].pc # "threw"
       /\ \A i \in 1..Len(pulls') :
             /\ pulls'[i].pc # "fetch" => PullSurvivesInvalid(pulls'[i])
             /\ pulls'[i].pos > pulls[i].pos => pulls'[i].pc # "threw"]_vars

\* C20: with a chat stream and a pull stream in flight together, a step of one
\* leaves the state of the other as it was; each call's deliveries only grow at the
\* end; and what each has produced is what it produces alone: the assistant message
\* holds the concatenation of the deltas of the bytes read, and each read of the
\* pull adds the statuses of its chunk and leaves the last of them in the tracker.
\* (StreamsSpec)
C20_StreamsIndependent ==
    [][/\ chats' # chats => (pulls' = pulls /\ pullStatus' = pullStatus)
       /\ pulls' # pulls => (chats' = chats /\ messages' = messages /\ isLoading' = isLoading)
       /\ \A i \in 1..Len(chats') :
             /\ IsPrefix(chats[i].delivered, chats'[i].delivered)
             /\ chats'[i].pc \in {"read", "returned"} =>
                   /\ chats'[i].delivered = OneReadDeltas(Prefix(chats'[i]))
                   /\ messages'[Placeholder(chats'[i])].content =
                          Concat(OneReadDeltas(Prefix(chats'[i])))
       /\ \A i \in 1..Len(pulls') :
             /\ IsPrefix(pulls[i].delivered, pulls'[i].delivered)
             /\ PullReads(i) =>
                   LET statuses == progressOfChunk(TextRead(pulls[i], pulls'[i]))
                   IN  /\ pulls'[i].delivered = pulls[i].delivered \o statuses
                       /\ pullStatus' = IF statuses = <<>> THEN pullStatus
                                        ELSE Some(Last(statuses))]_vars

\* both streams are in the middle of their responses, each with deliveries made
C20_Witness ==
    /\ \E i \in 1..Len(chats) :
          /\ chats[i].pc = "read"
          /\ chats[i].delivered # <<>>
          /\ chats[i].pos < Len(chats[i].body)
    /\ \E i \in 1..Len(pulls) :
          /\ pulls[i].pc = "read"
          /\ pulls[i].delivered # <<>>
          /\ pulls[i].pos < Len(pulls[i].body)

----------------------------------------------------------------------------
(* Claims about the four requests together.                                *)

\* the calls of a stream that wait for the answer to their request
Awaiting(calls) == Len(SelectSeq(calls, LAMBDA c : c.pc = "fetch"))

\* the step sends a request
IssuesListing == Len(listCalls') > Len(listCalls)

IssuesDetail == Len(infoCalls') > Len(infoCalls)

IssuesChat == Awaiting(chats') > Awaiting(chats)

IssuesPull == Awaiting(pulls') > Awaiting(pulls)

\* a call of the stream ends in the catch block of its caller in this step
EndsInCatch(calls, after) ==
    \E i \in 1..Len(calls) :
        i <= Len(after) /\ calls[i].pc # "threw" /\ after[i].pc = "threw"

\* the step is the failure of a request
ListingFails == Len(listCalls') < Len(listCalls) /\ error' # Null

DetailFails == Len(infoCalls') < Len(infoCalls) /\ selectedModelInfo' = None

RequestFails ==
    ListingFails \/ DetailFails \/ EndsInCatch(chats, chats') \/ EndsInCatch(pulls, pulls')

\* the last thing that happened to the operation is a failure
ListingFailed == error # Null

DetailFailed ==
    /\ effectsFlushed
    /\ selectedModel # ""
    /\ infoCalls = <<>>
    /\ selectedModelInfo = None

ChatFailed == ~isLoading /\ \E i \in 1..Len(chats) : chats[i].pc = "threw"

PullFailed == ~isPulling /\ \E i \in 1..Len(pulls) : pulls[i].pc = "threw"

\* the step is the user's: the model select, Retry Connection or Refresh Models,
\* a submission, the Pull button
UserSelects == \E k \in 1..Len(models) : setSelectedModel(models[k])

UserRefreshes == refreshModels

UserSubmits == \E sub \in Submissions : handleSendMessage(sub)

UserPulls == handlePullModel

\* C24 as stated: the step in which a listing, a detail fetch, a chat turn or a
\* pull fails sends no request, and once an operation has failed the next request
\* for it comes from an action of the user: a listing from Retry or Refresh (or
\* the effects of a host change), a detail fetch from the user's change of the
\* selection, a chat request from a submission, a pull request from the Pull
\* button.
C24_NoRequestUntilUserActs ==
    [][ /\ RequestFails => ~(IssuesListing \/ IssuesDetail \/ IssuesChat \/ IssuesPull)
        /\ (ListingFailed /\ IssuesListing) => (UserRefreshes \/ ollamaHostEffects)
        /\ (DetailFailed /\ selectedModel' # selectedModel /\ selectedModel' # "")
               => UserSelects
        /\ (ChatFailed /\ IssuesChat) => UserSubmits
        /\ (PullFailed /\ IssuesPull) => UserPulls ]_vars

\* C24, amended: the step in which a listing, a detail fetch, a chat turn or a
\* pull fails sends no request, and once an operation has failed the next request
\* for it comes from an action of the user, or, for a listing, from a pull that
\* returns (handlePullModel calls refreshModels), or, for a detail fetch, from a
\* listing that resolves and changes the selection. A failed chat request and a
\* failed pull are followed by a request only at a submission or at the Pull
\* button.
C24_NoRetry ==
    [][ /\ RequestFails => ~(IssuesListing \/ IssuesDetail \/ IssuesChat \/ IssuesPull)
        /\ (ListingFailed /\ IssuesListing)
               => \/ UserRefreshes
                  \/ ollamaHostEffects
                  \/ \E i \in 1..Len(pulls) : pullModelEnd(i)
        /\ (DetailFailed /\ selectedModel' # selectedModel /\ selectedModel' # "")
               => \/ UserSelects
                  \/ \E i \in 1..Len(listCalls), list \in ServerLists : fetchModelsOk(i, list)
        /\ (ChatFailed /\ IssuesChat) => UserSubmits
        /\ (PullFailed /\ IssuesPull) => UserPulls ]_vars

\* the listing, a chat turn and a pull have failed and nothing is in flight
C24_Witness ==
    /\ mounted
    /\ ListingFailed
    /\ ChatFailed
    /\ PullFailed
    /\ listCalls = <<>>
    /\ infoCalls = <<>>

\* C26: failures are scoped to their operation. The step in which a listing or
\* a pull fails leaves the chat history, the loading flag and every chat stream
\* as they are and raises no unhandled error, and the step in which a chat turn
\* fails leaves the model set, the selected model and the pull tracker as they
\* are.
C26_FailuresScoped ==
    [][ /\ (ListingFails \/ EndsInCatch(pulls, pulls'))
               => /\ messages' = messages
                  /\ chats' = chats
                  /\ isLoading' = isLoading
                  /\ mounted'
        /\ EndsInCatch(chats, chats')
               => /\ models' = models
                  /\ selectedModel' = selectedModel
                  /\ pullStatus' = pullStatus
                  /\ isPulling' = isPulling
                  /\ pulls' = pulls ]_vars

\* a listing has failed after the submission of a turn whose stream is still
\* being read, and a pull has failed
C26_Witness ==
    /\ mounted
    /\ ListingFailed
    /\ \E i \in 1..Len(pulls) : pulls[i].pc = "threw"
    /\ \E i \in 1..Len(chats) : chats[i].pc = "read"
    /\ isLoading

----------------------------------------------------------------------------
(* Claims about the versions of the chat history.                          *)

AppendedOne(old, new) == Len(new) = Len(old) + 1 /\ SubSeq(new, 1, Len(old)) = old

ModifiedOne(old, new) ==
    Len(new) = Len(old) /\ Cardinality({k \in 1..Len(old) : new[k] # old[k]}) = 1

OneEntryChange(old, new) == AppendedOne(old, new) \/ ModifiedOne(old, new)

\* the versions of the history in a step: a submission calls setMessages twice,
\* with newMessages and with the updater that adds the placeholder; every other
\* step changes the history through one updater, or through several onChunk
\* updaters that modify the same entry
HistoryVersions ==
    IF isLoading' /\ ~isLoading /\ messages' # <<>>
    THEN <<messages, SubSeq(messages', 1, Len(messages') - 1), messages'>>
    ELSE <<messages, messages'>>

OneEntryChanges ==
    \A v \in 1..(Len(HistoryVersions) - 1) :
        OneEntryChange(HistoryVersions[v], HistoryVersions[v + 1])

\* C25 as stated: every change to the chat history produces a version that
\* differs from the previous one by exactly one appended entry or exactly one
\* modified entry; no step removes entries or changes more than one entry.
C25_OneEntryPerVersion ==
    [][messages' # messages => OneEntryChanges]_vars

\* C25, amended: every change to the chat history either produces a version
\* that differs from the previous one by exactly one appended entry or exactly
\* one modified entry, or is Clear Chat History, which removes every entry at
\* once; no other step removes entries or changes more than one entry.
C25_OneEntryOrCleared ==
    [][messages' # messages => (OneEntryChanges \/ messages' = <<>>)]_vars

\* a turn has run to its end and the history it filled has been cleared
C25_Witness ==
    /\ mounted
    /\ messages = <<>>
    /\ ~isLoading
    /\ \E i \in 1..Len(chats) : chats[i].pc = "returned" /\ chats[i].delivered # <<>>

----------------------------------------------------------------------------
(* Claims about user actions during a chat stream.                         *)

\* the last entry of the history is the placeholder that the submission of call
\* c opened, on top of the history that the submission sent
PlaceholderIsLast(c) ==
    /\ messages # <<>>
    /\ Len(messages) = Len(c.messages) + 1
    /\ SubSeq(messages, 1, Len(messages) - 1) = c.messages
    /\ Last(messages).role = "assistant"

\* C28: whatever the user does while a chat stream is in flight, Clear Chat
\* History included, every step that hands deltas of the stream to the delta
\* handler, and the step in which the stream fails, finds the placeholder of its
\* submission as the last entry of the history (never an empty history, never
\* another message), and the step raises no unhandled error.
C28_DeltasReachPlaceholder ==
    [][\A i \in 1..Len(chats) :
          (/\ i <= Len(chats')
           /\ chats[i].pc \in {"fetch", "read"}
           /\ \/ chats'[i].delivered # chats[i].delivered
              \/ chats'[i].pc = "threw")
              => (PlaceholderIsLast(chats[i]) /\ mounted')]_vars

\* C37: the step in which a chat stream ends at the end of the response, no done
\* record seen, adds no message and changes none, leaves isLoading false and
\* raises no error; the placeholder of the turn, when the history still ends with
\* it, holds exactly the deltas delivered, which may be none.  (Spec)
C37_CloseWithoutDone ==
    [][\A i \in 1..Len(chats) :
          (/\ chats[i].pc = "read"
           /\ i <= Len(chats')
           /\ chats'[i].pc = "returned"
           /\ ~chats'[i].sawDone) =>
              /\ messages' = messages
              /\ ~isLoading'
              /\ mounted'
              /\ PlaceholderIsLast(chats[i]) =>
                     Last(messages').content = Concat(chats'[i].delivered)]_vars

\* a turn has ended at the end of a response without a done record, with text in
\* its placeholder
C37_Witness ==
    /\ mounted
    /\ ~isLoading
    /\ \E i \in 1..Len(chats) :
          /\ chats[i].pc = "returned"
          /\ ~chats[i].sawDone
          /\ chats[i].delivered # <<>>
          /\ PlaceholderIsLast(chats[i])
          /\ Last(messages).content = Concat(chats[i].delivered)

====
